---------------------------- MODULE Spec2Model ----------------------------
(***************************************************************************)
(* A model of the reflex block language: the node graph (nodes.py), the    *)
(* preprocessor and the continuation-driven evaluator (interpreter.py).    *)
(*                                                                         *)
(* Nodes live in a heap, a sequence of records; a node's identity is its   *)
(* index, 0 is Python's None.  Python dicts (Block.defs and the            *)
(* clone_overrides tables) are ordered: they are sequences of <<key,       *)
(* value>> pairs with unique keys.  Strings are sequences of code points.  *)
(***************************************************************************)
EXTENDS Integers, Sequences, FiniteSets, TLC

VARIABLES
    prog,    \* which source program is being run, and its parameters
    heap,    \* the node graph
    expr,    \* evaluate_result's current expression (a node id)
    value,   \* the value being delivered to the continuation stack
    stack,   \* evaluate_result's stack of continuation frames
    pc,      \* "start" | "descend" | "ascend" | "done" | "error"
    err,     \* the exception that ended the run, "" when none
    program, \* program_result's local: the nodes 1..program are its graph
    last_fn, \* evaluate_result's local fn: the frame popped last
    last_result, \* evaluate_result's local result: the node it handed back
    parser,  \* parser.py's Parser object and parse_module's locals
    tokenizer, \* lexer.py's Tokenizer object and parse_string_lit's locals
    setter,  \* a BackEdge whose clone_overrides is set and then propagated
    graph    \* a node graph on which lazy_clone and propagate_clone are called

vars == <<prog, heap, expr, value, stack, pc, err, program, last_fn, last_result,
          parser, tokenizer, setter, graph>>

-----------------------------------------------------------------------------
(* Ordered dictionaries.                                                   *)

None == 0

DictHas(d, k) == \E i \in 1..Len(d) : d[i][1] = k

DictGet(d, k) ==
    IF DictHas(d, k) THEN d[CHOOSE i \in 1..Len(d) : d[i][1] = k][2] ELSE None

DictPut(d, k, v) ==
    IF DictHas(d, k)
    THEN [i \in 1..Len(d) |-> IF d[i][1] = k THEN <<k, v>> ELSE d[i]]
    ELSE Append(d, <<k, v>>)

DictKeys(d) == [i \in 1..Len(d) |-> d[i][1]]

DictKeySet(d) == {d[i][1] : i \in 1..Len(d)}

RECURSIVE DictUnion(_, _)
DictUnion(a, b) ==
    IF b = <<>> THEN a
    ELSE DictUnion(DictPut(a, Head(b)[1], Head(b)[2]), Tail(b))

-----------------------------------------------------------------------------
(* nodes.py: the node records.                                             *)

AtomicKinds == {"Identifier", "IntLit", "StringLit", "CloneAttr"}

BuiltInKinds == {"IntOp", "IntStr", "IntChr", "Select", "IntLogicalAnd",
                 "IntLogicalOr", "StrCat", "StrComparison", "StrLen",
                 "StrSubstr"}

Node(kind, defs, base, context, attr, ival, sval) ==
    [kind |-> kind, defs |-> defs, base |-> base, context |-> context,
     attr |-> attr, ival |-> ival, sval |-> sval,
     co |-> <<>>, hasco |-> FALSE]

Block(defs) == Node("Block", defs, None, None, "", 0, <<>>)
Override(base, defs) == Node("Override", defs, base, None, "", 0, <<>>)
Call(base, defs) == Node("Call", defs, base, None, "", 0, <<>>)
Access(base, attr) == Node("Access", <<>>, base, None, attr, 0, <<>>)
Eager(base) == Node("Eager", <<>>, base, None, "", 0, <<>>)
BackEdge(base) == Node("BackEdge", <<>>, base, None, "", 0, <<>>)
CloneAttr(attr) == Node("CloneAttr", <<>>, None, None, attr, 0, <<>>)
IntLit(v) == Node("IntLit", <<>>, None, None, "", v, <<>>)
StringLit(s) == Node("StringLit", <<>>, None, None, "", 0, s)
BuiltInFn(kind, context, tag) == Node(kind, <<>>, None, context, tag, 0, <<>>)

(* A pass that leaves the nodes of to_remove in new_result.                 *)
RECURSIVE walk_pass_keep(_, _, _, _)
walk_pass_keep(overrides, i, new_result, to_remove) ==
    IF i > Len(overrides) THEN new_result
    ELSE LET k == overrides[i][1]
             v == overrides[i][2]
             x == DictGet(overrides, v)
         IN  IF k \in to_remove
             THEN walk_pass_keep(overrides, i + 1, new_result, to_remove)
             ELSE IF x # None
             THEN walk_pass_keep(overrides, i + 1, DictPut(new_result, k, x),
                                 to_remove \cup {v})
             ELSE walk_pass_keep(overrides, i + 1, DictPut(new_result, k, v),
                                 to_remove)

(* _walk_redundant_paths: one pass over the items, then the loop.          *)
RECURSIVE walk_pass(_, _, _, _)
walk_pass(overrides, i, new_result, to_remove) ==
    IF i > Len(overrides)
    THEN SelectSeq(new_result, LAMBDA e : e[1] \notin to_remove)
    ELSE LET k == overrides[i][1]
             v == overrides[i][2]
             x == DictGet(overrides, v)
         IN  IF k \in to_remove
             THEN walk_pass(overrides, i + 1, new_result, to_remove)
             ELSE IF x # None
             THEN walk_pass(overrides, i + 1, DictPut(new_result, k, x),
                            to_remove \cup {v})
             ELSE walk_pass(overrides, i + 1, DictPut(new_result, k, v),
                            to_remove)

RECURSIVE walk_redundant_paths(_)
walk_redundant_paths(overrides) ==
    LET new_result == walk_pass(overrides, 1, <<>>, {})
    IN  IF Len(new_result) = Len(overrides) THEN overrides
        ELSE walk_redundant_paths(new_result)

(* The clone_overrides setter with a dict argument / with None.            *)
set_clone_overrides(n, d) ==
    [n EXCEPT !.co = walk_redundant_paths(d), !.hasco = TRUE]

(* A setter call with None that leaves the table in place.                 *)
clear_clone_overrides_keep(n) == n

clear_clone_overrides(n) == [n EXCEPT !.co = <<>>, !.hasco = FALSE]

(* A lazy_clone that forgets the node's own table.                         *)
lazy_clone_drop_own(h, id, overrides) ==
    LET n == h[id]
        new == Len(h) + 1
        own == IF n.kind \in {"Block", "Override"}
               THEN <<<<id, new>>>> ELSE <<>>
        table == DictUnion(overrides, own)
    IN  IF n.kind \in AtomicKinds THEN [h |-> h, id |-> id]
        ELSE [h |-> Append(h, set_clone_overrides(n, table)), id |-> new]

(* A lazy_clone that leaves the entry self -> copy out of the table.       *)
lazy_clone_no_self(h, id, overrides) ==
    LET n == h[id]
        table == DictUnion(overrides, n.co)
    IN  IF n.kind \in AtomicKinds THEN [h |-> h, id |-> id]
        ELSE [h |-> Append(h, set_clone_overrides(n, table)), id |-> Len(h) + 1]

(* A lazy_clone in which a Call, too, enters itself into the table.        *)
lazy_clone_call_self(h, id, overrides) ==
    LET n == h[id]
        new == Len(h) + 1
        own == IF n.kind \in {"Block", "Override", "Call"}
               THEN <<<<id, new>>>> ELSE <<>>
        table == DictUnion(DictUnion(overrides, own), n.co)
    IN  IF n.kind \in AtomicKinds THEN [h |-> h, id |-> id]
        ELSE [h |-> Append(h, set_clone_overrides(n, table)), id |-> new]

(* A lazy_clone that hands back the node itself.                           *)
lazy_clone_in_place(h, id, overrides) == [h |-> h, id |-> id]

(* lazy_clone: the new heap and the id of the copy.  Block and Override    *)
(* add the entry self -> copy between the caller's table and their own.    *)
lazy_clone(h, id, overrides) ==
    LET n == h[id]
        new == Len(h) + 1
        own == IF n.kind \in {"Block", "Override"}
               THEN <<<<id, new>>>> ELSE <<>>
        table == DictUnion(DictUnion(overrides, own), n.co)
    IN  IF n.kind \in AtomicKinds THEN [h |-> h, id |-> id]
        ELSE [h |-> Append(h, set_clone_overrides(n, table)), id |-> new]

(* The dict comprehension {k: v.lazy_clone(overrides) for k, v in defs}.   *)
RECURSIVE clone_defs(_, _, _, _)
clone_defs(h, defs, i, overrides) ==
    IF i > Len(defs) THEN [h |-> h, defs |-> defs]
    ELSE LET c == lazy_clone(h, defs[i][2], overrides)
         IN  clone_defs(c.h, [defs EXCEPT ![i] = <<defs[i][1], c.id>>],
                        i + 1, overrides)

(* A back-edge that ignores the table and keeps its target.                *)
chase_nothing(overrides, base) == base

(* BackEdge.propagate_clone: while new_base := overrides.get(self.base).   *)
RECURSIVE chase(_, _)
chase(overrides, base) ==
    IF DictGet(overrides, base) # None
    THEN chase(overrides, DictGet(overrides, base))
    ELSE base

(* The tables are WeakKeyDictionaries: an entry is gone once nothing       *)
(* holds its key.  The nodes 1..program stay held by program_result; the   *)
(* other nodes are held by the locals of evaluate_result (roots) and by    *)
(* what those reference through defs, base, context and the values of      *)
(* pending tables.  The collector is taken to run at once.                 *)
Refs(h, i) ==
    {x \in {h[i].defs[j][2] : j \in 1..Len(h[i].defs)}
            \cup {h[i].co[j][2] : j \in 1..Len(h[i].co)}
            \cup {h[i].base, h[i].context} : x > program}

(* Whether one of keys is held from the nodes of frontier.                 *)
RECURSIVE Reach(_, _, _, _)
Reach(h, keys, seen, frontier) ==
    IF frontier \cap keys # {} THEN TRUE
    ELSE IF frontier = {} THEN FALSE
    ELSE LET next == UNION {Refs(h, i) : i \in frontier} \ seen
         IN  Reach(h, keys, seen \cup next, next)

FrameRefs(f) == {f.node, f.x, f.start}

Roots(nodes, frames) ==
    {x \in nodes \cup UNION {FrameRefs(frames[i]) : i \in 1..Len(frames)} :
        x > program}

(* `if overrides := self.clone_overrides`: some entry is left.             *)
Truthy(h, overrides, roots) ==
    LET keys == {overrides[i][1] : i \in 1..Len(overrides)}
    IN  /\ keys # {}
        /\ \/ \E k \in keys : k <= program
           \/ Reach(h, keys, roots, roots)

(* propagate_clone, by node kind: the heap after it.                       *)
propagate_clone(h, id, roots) ==
    LET n == h[id]
        overrides == n.co
    IN  IF n.kind \in AtomicKinds \/ ~Truthy(h, overrides, roots) THEN h
        ELSE IF n.kind = "Block" THEN
            LET d == clone_defs(h, n.defs, 1, overrides)
            IN  [d.h EXCEPT ![id] = clear_clone_overrides([n EXCEPT !.defs = d.defs])]
        ELSE IF n.kind \in {"Access", "Eager"} THEN
            LET c == lazy_clone(h, n.base, overrides)
            IN  [c.h EXCEPT ![id] = clear_clone_overrides([n EXCEPT !.base = c.id])]
        ELSE IF n.kind \in {"Override", "Call"} THEN
            LET c == lazy_clone(h, n.base, overrides)
                d == clone_defs(c.h, n.defs, 1, overrides)
            IN  [d.h EXCEPT ![id] = clear_clone_overrides(
                                      [n EXCEPT !.base = c.id, !.defs = d.defs])]
        ELSE IF n.kind = "BackEdge" THEN
            [h EXCEPT ![id] = clear_clone_overrides(
                                [n EXCEPT !.base = chase(overrides, n.base)])]
        ELSE \* a built-in
            LET c == lazy_clone(h, n.context, overrides)
            IN  [c.h EXCEPT ![id] = clear_clone_overrides([n EXCEPT !.context = c.id])]

-----------------------------------------------------------------------------
(* Python's integer and string primitives.                                 *)

PyFloorDiv(x, y) == IF y > 0 THEN x \div y ELSE (-x) \div (-y)

PyMod(x, y) == x - y * PyFloorDiv(x, y)

RECURSIVE PyBitAnd(_, _)
PyBitAnd(x, y) ==
    IF x = 0 \/ y = 0 THEN 0
    ELSE IF x = -1 THEN y
    ELSE IF y = -1 THEN x
    ELSE ((x % 2) * (y % 2)) + 2 * PyBitAnd(x \div 2, y \div 2)

RECURSIVE PyBitOr(_, _)
PyBitOr(x, y) ==
    IF x = 0 THEN y
    ELSE IF y = 0 THEN x
    ELSE IF x = -1 \/ y = -1 THEN -1
    ELSE (IF x % 2 = 1 \/ y % 2 = 1 THEN 1 ELSE 0)
         + 2 * PyBitOr(x \div 2, y \div 2)

RECURSIVE PyBitXor(_, _)
PyBitXor(x, y) ==
    IF x = 0 THEN y
    ELSE IF y = 0 THEN x
    ELSE IF x = -1 THEN -y - 1
    ELSE IF y = -1 THEN -x - 1
    ELSE (((x % 2) + (y % 2)) % 2) + 2 * PyBitXor(x \div 2, y \div 2)

PyBool(b) == IF b THEN 1 ELSE 0

(* The lambdas int_to_block hands to int_op_block, by attribute name.      *)
IntOpNames == <<"add", "sub", "eq", "ne", "lt", "gt", "le", "ge", "mul",
                "div", "mod", "bit_and", "bit_or", "bit_xor">>

IntFnRaises(fn, x, y) == fn \in {"div", "mod"} /\ y = 0

IntFn(fn, x, y) ==
    CASE fn = "add" -> x + y
      [] fn = "sub" -> x - y
      [] fn = "eq" -> PyBool(x = y)
      [] fn = "ne" -> PyBool(x # y)
      [] fn = "lt" -> PyBool(x < y)
      [] fn = "gt" -> PyBool(x > y)
      [] fn = "le" -> PyBool(x <= y)
      [] fn = "ge" -> PyBool(x >= y)
      [] fn = "mul" -> x * y
      [] fn = "div" -> PyFloorDiv(x, y)
      [] fn = "mod" -> PyMod(x, y)
      [] fn = "bit_and" -> PyBitAnd(x, y)
      [] fn = "bit_or" -> PyBitOr(x, y)
      [] fn = "bit_xor" -> PyBitXor(x, y)

(* str(int): the decimal digits as code points, '-' first when negative.   *)
RECURSIVE PyDigits(_)
PyDigits(n) ==
    IF n < 10 THEN <<48 + n>> ELSE Append(PyDigits(n \div 10), 48 + (n % 10))

PyStr(n) == IF n < 0 THEN <<45>> \o PyDigits(-n) ELSE PyDigits(n)

MaxCodePoint == 1114111

PyChrRaises(n) == n < 0 \/ n > MaxCodePoint

PyChr(n) == <<n>>

RECURSIVE PyStrLess(_, _)
PyStrLess(a, b) ==
    IF b = <<>> THEN FALSE
    ELSE IF a = <<>> THEN TRUE
    ELSE IF Head(a) # Head(b) THEN Head(a) < Head(b)
    ELSE PyStrLess(Tail(a), Tail(b))

StrCompare(op, x, y) ==
    CASE op = "==" -> x = y
      [] op = "<" -> PyStrLess(x, y)
      [] op = "<=" -> PyStrLess(x, y) \/ x = y
      [] op = ">" -> PyStrLess(y, x)
      [] op = ">=" -> PyStrLess(y, x) \/ x = y
      [] op = "!=" -> x # y

(* s[start:end] with Python's clamping of negative and oversized bounds.   *)
PySliceBound(i, len) ==
    IF i < 0 THEN (IF i + len < 0 THEN 0 ELSE i + len)
    ELSE IF i > len THEN len ELSE i

PySlice(s, start, end) ==
    LET a == PySliceBound(start, Len(s))
        b == PySliceBound(end, Len(s))
    IN  IF a < b THEN SubSeq(s, a + 1, b) ELSE <<>>

-----------------------------------------------------------------------------
(* interpreter.py: the primitive blocks.  Each *_nodes operator lists the  *)
(* nodes the Python function creates, to be stored from index at + 1 on.   *)

(* int_op_block and int_logical_op_block: {x, result}, 4 nodes.            *)
int_op_block(at, parent, kind, fn) ==
    << Block(<< <<"x", at + 2>>, <<"result", at + 3>> >>),
       BackEdge(parent),
       BuiltInFn(kind, at + 4, fn),
       BackEdge(at + 1) >>

RECURSIVE int_op_blocks(_, _, _)
int_op_blocks(at, parent, i) ==
    IF i > Len(IntOpNames) THEN <<>>
    ELSE int_op_block(at, parent, "IntOp", IntOpNames[i])
         \o int_op_blocks(at + 4, parent, i + 1)

IntBlockSize == 73

(* int_to_block(node): node is the IntLit with id inner.                   *)
int_block_nodes(at, inner) ==
    LET result == at + 1
        select_block == at + 2
        ops == at + 5            \* the op blocks start at ops + 1
        nops == Len(IntOpNames)
        land == ops + 4 * nops
        lor == land + 4
        tail == lor + 4
    IN  << Block(<< <<"_inner", inner>> >>
                 \o [i \in 1..nops |-> <<IntOpNames[i], ops + 4 * (i - 1) + 1>>]
                 \o << <<"logical_and", land + 1>>, <<"logical_or", lor + 1>>,
                       <<"str", tail + 1>>, <<"chr", tail + 3>>,
                       <<"select", select_block>> >>),
           Block(<< <<"cond", at + 3>>, <<"result", at + 4>> >>),
           BackEdge(result),
           BuiltInFn("Select", at + 5, ""),
           BackEdge(select_block) >>
        \o int_op_blocks(ops, result, 1)
        \o int_op_block(land, result, "IntLogicalAnd", "")
        \o int_op_block(lor, result, "IntLogicalOr", "")
        \o << BuiltInFn("IntStr", tail + 2, ""), BackEdge(result),
              BuiltInFn("IntChr", tail + 4, ""), BackEdge(result) >>

int_to_block(h, inner) ==
    [h |-> h \o int_block_nodes(Len(h), inner), id |-> Len(h) + 1]

(* int_to_block(IntLit(value=v)) with a fresh literal.                     *)
new_int_block(h, v) == int_to_block(Append(h, IntLit(v)), Len(h) + 1)

(* str_method(str_block, fn) for a method whose fn gives only `result`.    *)
str_method(at, str_block, kind, op) ==
    << Block(<< <<"x", at + 2>>, <<"result", at + 3>> >>),
       BackEdge(str_block),
       BuiltInFn(kind, at + 4, op),
       BackEdge(at + 1) >>

StrCmpOps == << <<"<=", "le">>, <<">=", "ge">>, <<"==", "eq">>,
                <<"!=", "ne">>, <<"<", "lt">>, <<">", "gt">> >>

RECURSIVE str_cmp_blocks(_, _, _)
str_cmp_blocks(at, str_block, i) ==
    IF i > Len(StrCmpOps) THEN <<>>
    ELSE str_method(at, str_block, "StrComparison", StrCmpOps[i][1])
         \o str_cmp_blocks(at + 4, str_block, i + 1)

(* str_to_block(node): node is the StringLit with id inner.                *)
str_block_nodes(at, inner) ==
    LET result == at + 1
        cat == at + 1
        add == at + 5
        len == at + 9           \* StrLen at len + 1, its context at len + 2
        substr == at + 11       \* the method block at substr + 1
        zero == substr + 3      \* IntLit(0), then its int block
        start == zero + 1
        end == zero + IntBlockSize
        cmps == end + 4
    IN  << Block(<< <<"_inner", inner>>, <<"cat", cat + 1>>, <<"add", add + 1>>,
                    <<"len", len + 1>>, <<"substr", substr + 1>> >>
                 \o [i \in 1..Len(StrCmpOps) |->
                        <<StrCmpOps[i][2], cmps + 4 * (i - 1) + 1>>]) >>
        \o str_method(cat, result, "StrCat", "")
        \o str_method(add, result, "StrCat", "")
        \o << BuiltInFn("StrLen", len + 2, ""), BackEdge(result) >>
        \o << Block(<< <<"x", substr + 2>>, <<"start", start>>,
                       <<"end", end + 1>>, <<"result", end + 3>> >>),
              BackEdge(result),
              IntLit(0) >>
        \o int_block_nodes(zero, zero)
        \o << BuiltInFn("StrLen", end + 2, ""), BackEdge(result),
              BuiltInFn("StrSubstr", end + 4, ""), BackEdge(substr + 1) >>
        \o str_cmp_blocks(cmps, result, 1)

str_to_block(h, inner) ==
    [h |-> h \o str_block_nodes(Len(h), inner), id |-> Len(h) + 1]

new_str_block(h, s) == str_to_block(Append(h, StringLit(s)), Len(h) + 1)

(* block_get: the two assertions, then the lookup.                         *)
block_get_error(h, block, key) ==
    IF h[block].hasco THEN "AssertionError"
    ELSE IF h[block].kind \notin {"Block", "Override"} THEN "AssertionError"
    ELSE IF ~DictHas(h[block].defs, key) THEN "KeyError"
    ELSE ""

block_get(h, block, key) == DictGet(h[block].defs, key)

-----------------------------------------------------------------------------
(* The parser's output: the surface AST, a tree of records.  defs is a     *)
(* sequence of <<name, tree>> pairs, sub the sequence of operand subtrees  *)
(* (base; x, y; cond, a, b).                                               *)

Ast(k, sub, defs, attr, ival, sval) ==
    [k |-> k, sub |-> sub, defs |-> defs, attr |-> attr, ival |-> ival,
     sval |-> sval]

ABlock(defs) == Ast("Block", <<>>, defs, "", 0, <<>>)
AOverride(base, defs) == Ast("Override", <<base>>, defs, "", 0, <<>>)
ACall(base, defs) == Ast("Call", <<base>>, defs, "", 0, <<>>)
AAccess(base, attr) == Ast("Access", <<base>>, <<>>, attr, 0, <<>>)
AParent(depth) == Ast("Parent", <<>>, <<>>, "", depth, <<>>)
ASelfRef == Ast("SelfRef", <<>>, <<>>, "", 0, <<>>)
AAncestorLookup(name) == Ast("AncestorLookup", <<>>, <<>>, name, 0, <<>>)
AIdentifier(name) == Ast("Identifier", <<>>, <<>>, name, 0, <<>>)
AIntLit(v) == Ast("IntLit", <<>>, <<>>, "", v, <<>>)
AStringLit(s) == Ast("StringLit", <<>>, <<>>, "", 0, s)
AEager(base) == Ast("Eager", <<base>>, <<>>, "", 0, <<>>)
ACloneAttr(attr) == Ast("CloneAttr", <<>>, <<>>, attr, 0, <<>>)
ABinaryOp(x, op, y) == Ast("BinaryOp", <<x, y>>, <<>>, op, 0, <<>>)
AConditional(cond, a, b) == Ast("Conditional", <<cond, a, b>>, <<>>, "", 0, <<>>)

(* parser.py, parse_primary and parse_expr: '^' is Parent(1) and every     *)
(* following '.^' adds one to the depth.                                   *)
RECURSIVE parse_parent_chain(_)
parse_parent_chain(k) ==
    IF k <= 1 THEN AParent(1)
    ELSE LET node == parse_parent_chain(k - 1)
         IN  AParent(node.ival + 1)

-----------------------------------------------------------------------------
(* interpreter.py: preprocess.                                             *)

(* A Parent that resolves one scope too near.                              *)
parent_target_near(parents, depth) == parents[Len(parents) - depth + 1]

(* Parent: parents[len(parents) - (expr.depth + 1)], 0-based in Python.    *)
parent_target(parents, depth) == parents[Len(parents) - (depth + 1) + 1]

(* AncestorLookup: the loop over parents[:-1][::-1]; i runs from the       *)
(* innermost-but-one down to the outermost and every hit is stored.        *)
RECURSIVE ancestor_scan(_, _, _, _, _)
ancestor_scan(h, parents, i, name, found_parent) ==
    IF i < 1 THEN found_parent
    ELSE IF block_get_error(h, parents[i], name) = ""
    THEN ancestor_scan(h, parents, i - 1, name, parents[i])
    ELSE ancestor_scan(h, parents, i - 1, name, found_parent)

ancestor_target(h, parents, name) ==
    ancestor_scan(h, parents, Len(parents) - 1, name, None)

(* The fn_name table of the BinaryOp branch.                               *)
FnName == << <<"==", "eq">>, <<"!=", "ne">>, <<"<", "lt">>, <<">", "gt">>,
             <<">=", "ge">>, <<"<=", "le">>, <<"+", "add">>, <<"-", "sub">>,
             <<"/", "div">>, <<"*", "mul">>, <<"%", "mod">>,
             <<"&&", "logical_and">>, <<"||", "logical_or">> >>

(* A scope rule under which every node, Call included, pushes a scope.     *)
scope_always_pushed(kind, parents, node) == Append(parents, node)

(* The parents list handed to the definitions of a node: Block and         *)
(* Override pass parents + [node], Call passes parents.                    *)
scope_of_defs(kind, parents, node) ==
    IF kind = "Call" THEN parents ELSE Append(parents, node)

(* A last branch that also hands an Identifier back untouched.             *)
returned_as_is_identifier(k) == k \in {"CloneAttr", "Identifier"}

(* The kinds preprocess returns as they are: `elif isinstance(expr,        *)
(* CloneAttr): return expr`.                                               *)
returned_as_is(k) == k = "CloneAttr"

Failed(h, e) == [h |-> h, id |-> None, err |-> e]

Done(h, id) == [h |-> h, id |-> id, err |-> ""]

Placeholders(defs) == [i \in 1..Len(defs) |-> <<defs[i][1], None>>]

RECURSIVE preprocess(_, _, _)
RECURSIVE preprocess_defs(_, _, _, _, _)

(* {k: preprocess(parents, v) for k, v in defs.items()}: id is unused.     *)
preprocess_defs(h, parents, defs, i, out) ==
    IF i > Len(defs) THEN [h |-> h, defs |-> out, err |-> ""]
    ELSE LET r == preprocess(h, parents, defs[i][2])
         IN  IF r.err # "" THEN [h |-> r.h, defs |-> out, err |-> r.err]
             ELSE preprocess_defs(r.h, parents, defs, i + 1,
                                  Append(out, <<defs[i][1], r.id>>))

preprocess(h, parents, e) ==
    LET new == Len(h) + 1
    IN
    CASE returned_as_is(e.k) ->
            Done(Append(h, Node(e.k, <<>>, None, None, e.attr, 0, <<>>)), new)
      [] e.k = "Parent" ->
            IF ~(e.ival + 1 <= Len(parents)) THEN Failed(h, "AssertionError")
            ELSE Done(Append(h, BackEdge(parent_target(parents, e.ival))), new)
      [] e.k = "SelfRef" ->
            IF parents = <<>> THEN Failed(h, "IndexError")
            ELSE Done(Append(h, BackEdge(parents[Len(parents)])), new)
      [] e.k = "Access" ->
            LET b == preprocess(h, parents, e.sub[1])
            IN  IF b.err # "" THEN b
                ELSE Done(Append(b.h, Access(b.id, e.attr)), Len(b.h) + 1)
      [] e.k = "AncestorLookup" ->
            LET found_parent == ancestor_target(h, parents, e.attr)
            IN  IF found_parent = None THEN Failed(h, "KeyError")
                ELSE Done(h \o <<BackEdge(found_parent), Access(new, e.attr)>>,
                          new + 1)
      [] e.k = "Block" ->
            LET h1 == Append(h, Block(Placeholders(e.defs)))
                d == preprocess_defs(h1, scope_of_defs(e.k, parents, new), e.defs, 1, <<>>)
            IN  IF d.err # "" THEN Failed(d.h, d.err)
                ELSE Done([d.h EXCEPT ![new].defs = d.defs], new)
      [] e.k = "Override" ->
            LET h1 == Append(h, Override(None, <<>>))
                b == preprocess(h1, parents, e.sub[1])
                h2 == [b.h EXCEPT ![new].base = b.id,
                                  ![new].defs = Placeholders(e.defs)]
                d == preprocess_defs(h2, scope_of_defs(e.k, parents, new), e.defs, 1, <<>>)
            IN  IF b.err # "" THEN b
                ELSE IF d.err # "" THEN Failed(d.h, d.err)
                ELSE Done([d.h EXCEPT ![new].defs = d.defs], new)
      [] e.k = "Call" ->
            LET b == preprocess(h, parents, e.sub[1])
                d == preprocess_defs(b.h, scope_of_defs(e.k, parents, None), e.defs, 1, <<>>)
            IN  IF b.err # "" THEN b
                ELSE IF d.err # "" THEN Failed(d.h, d.err)
                ELSE Done(Append(d.h, Call(b.id, d.defs)), Len(d.h) + 1)
      [] e.k = "BinaryOp" ->
            IF ~DictHas(FnName, e.attr) THEN Failed(h, "KeyError")
            ELSE preprocess(h, parents,
                    AAccess(ACall(AAccess(e.sub[1], DictGet(FnName, e.attr)),
                                  << <<"y", e.sub[2]>> >>),
                            "result"))
      [] e.k = "Conditional" ->
            preprocess(h, parents,
                AAccess(ACall(AAccess(e.sub[1], "select"),
                              << <<"true", e.sub[2]>>, <<"false", e.sub[3]>> >>),
                        "result"))
      [] e.k = "IntLit" ->
            LET r == new_int_block(h, e.ival) IN Done(r.h, r.id)
      [] e.k = "StringLit" ->
            LET r == new_str_block(h, e.sval) IN Done(r.h, r.id)
      [] e.k = "Identifier" ->
            preprocess(h, parents, AAccess(ASelfRef, e.attr))
      [] e.k = "Eager" ->
            LET b == preprocess(h, parents, e.sub[1])
            IN  IF b.err # "" THEN b
                ELSE Done(Append(b.h, Eager(b.id)), Len(b.h) + 1)
      [] OTHER -> Failed(h, "ValueError")

-----------------------------------------------------------------------------
(* interpreter.py: evaluate_result's continuations.  A frame is the        *)
(* partial(...) pushed on the stack: the function and its keyword          *)
(* arguments.  A continuation gets the heap, the stack below its own       *)
(* frame, the delivered value and its frame, and returns (expr, None),     *)
(* (None, value) or raises.                                                *)

Frame(fn, attr, node, x, start, attrs) ==
    [fn |-> fn, attr |-> attr, node |-> node, x |-> x, start |-> start,
     attrs |-> attrs]

(* No frame popped yet.                                                    *)
NoFrame == Frame("", "", None, None, None, <<>>)

YieldExpr(h, stk, e) == [h |-> h, stack |-> stk, expr |-> e, value |-> None, err |-> ""]

YieldValue(h, stk, v) == [h |-> h, stack |-> stk, expr |-> None, value |-> v, err |-> ""]

Raise(h, stk, e) == [h |-> h, stack |-> stk, expr |-> None, value |-> None, err |-> e]

(* Access(base=Access(base=context, attr=a), attr="_inner"), fresh nodes.  *)
inner_of_attr(h, context, a) ==
    [h |-> h \o <<Access(context, a), Access(Len(h) + 1, "_inner")>>,
     id |-> Len(h) + 2]

access_after_base(h, stk, v, f) ==
    IF block_get_error(h, v, f.attr) # ""
    THEN Raise(h, stk, block_get_error(h, v, f.attr))
    ELSE YieldExpr(h, stk, block_get(h, v, f.attr))

(* A loop over the override's definitions that leaves the keys the base   *)
(* block has alone.                                                        *)
RECURSIVE override_defs_new_keys(_, _, _, _, _)
override_defs_new_keys(h, new_block, override, defs, i) ==
    IF i > Len(defs) THEN h
    ELSE IF DictHas(h[new_block].defs, defs[i][1])
    THEN override_defs_new_keys(h, new_block, override, defs, i + 1)
    ELSE LET c == lazy_clone(h, defs[i][2], << <<override, new_block>> >>)
         IN  override_defs_new_keys(
                 [c.h EXCEPT ![new_block].defs = DictPut(@, defs[i][1], c.id)],
                 new_block, override, defs, i + 1)

(* for k, v in override.defs.items(): new_block.defs[k] = v.lazy_clone(..) *)
RECURSIVE override_defs(_, _, _, _, _)
override_defs(h, new_block, override, defs, i) ==
    IF i > Len(defs) THEN h
    ELSE LET c == lazy_clone(h, defs[i][2], << <<override, new_block>> >>)
         IN  override_defs(
                 [c.h EXCEPT ![new_block].defs = DictPut(@, defs[i][1], c.id)],
                 new_block, override, defs, i + 1)

(* An override that writes its definitions into the base block itself.    *)
override_in_place(h, stk, v, f) ==
    LET defs == h[f.node].defs
    IN  IF h[v].kind # "Block" /\ defs # <<>>
        THEN Raise(h, stk, "AttributeError")
        ELSE YieldExpr(override_defs(h, v, f.node, defs, 1), stk, v)

(* An override that goes on to reduce the first of its definitions.        *)
override_reducing_defs(h, stk, v, f) ==
    LET c == lazy_clone(h, v, <<>>)
        h1 == propagate_clone(c.h, c.id, {v})
        defs == h[f.node].defs
        h2 == override_defs(h1, c.id, f.node, defs, 1)
    IN  IF h[v].kind # "Block" /\ defs # <<>>
        THEN Raise(h1, stk, "AttributeError")
        ELSE IF defs = <<>> THEN YieldExpr(h2, stk, c.id)
        ELSE YieldExpr(h2, stk, block_get(h2, c.id, defs[1][1]))

(* An override whose own definitions, too, are given the entry base ->    *)
(* new block.                                                              *)
RECURSIVE override_defs_from_base(_, _, _, _, _, _)
override_defs_from_base(h, new_block, base_block, override, defs, i) ==
    IF i > Len(defs) THEN h
    ELSE LET c == lazy_clone(h, defs[i][2], << <<override, new_block>>,
                                               <<base_block, new_block>> >>)
         IN  override_defs_from_base(
                 [c.h EXCEPT ![new_block].defs = DictPut(@, defs[i][1], c.id)],
                 new_block, base_block, override, defs, i + 1)

override_substituting_defs(h, stk, v, f) ==
    LET c == lazy_clone(h, v, <<>>)
        h1 == propagate_clone(c.h, c.id, {v})
        defs == h[f.node].defs
    IN  IF h[v].kind # "Block" /\ defs # <<>>
        THEN Raise(h1, stk, "AttributeError")
        ELSE YieldExpr(override_defs_from_base(h1, c.id, v, f.node, defs, 1),
                       stk, c.id)

override_after_base(h, stk, v, f) ==
    LET base_block == v
        c == lazy_clone(h, base_block, <<>>)
        new_block == c.id
        h1 == propagate_clone(c.h, new_block, {base_block})
        defs == h[f.node].defs
    IN  IF h[base_block].kind # "Block" /\ defs # <<>>
        THEN Raise(h1, stk, "AttributeError")
        ELSE YieldExpr(override_defs(h1, new_block, f.node, defs, 1), stk, new_block)

intop_after_x(h, stk, v, f) ==
    IF h[v].kind # "IntLit" THEN Raise(h, stk, "AssertionError")
    ELSE LET a == inner_of_attr(h, h[f.node].context, "y")
         IN  YieldExpr(a.h, Append(stk, Frame("intop_apply", "", f.node, v, None, <<>>)),
                       a.id)

(* An intop_apply without `assert isinstance(y, IntLit)`.                  *)
intop_apply_unchecked(h, stk, v, f) ==
    IF IntFnRaises(h[f.node].attr, h[f.x].ival, h[v].ival)
    THEN Raise(h, stk, "ZeroDivisionError")
    ELSE LET r == new_int_block(h, IntFn(h[f.node].attr, h[f.x].ival, h[v].ival))
         IN  YieldValue(r.h, stk, r.id)

intop_apply(h, stk, v, f) ==
    IF h[v].kind # "IntLit" THEN Raise(h, stk, "AssertionError")
    ELSE IF IntFnRaises(h[f.node].attr, h[f.x].ival, h[v].ival)
    THEN Raise(h, stk, "ZeroDivisionError")
    ELSE LET r == new_int_block(h, IntFn(h[f.node].attr, h[f.x].ival, h[v].ival))
         IN  YieldValue(r.h, stk, r.id)

(* A logical operator that reduces y whatever x is.                        *)
logical_always_y(h, stk, v, f) ==
    IF h[v].kind # "IntLit" THEN Raise(h, stk, "AssertionError")
    ELSE YieldExpr(Append(h, Access(h[f.node].context, "y")), stk, Len(h) + 1)

(* is_or is carried in the frame's attr: "or" or "and".                    *)
logical_int_op_after_x(h, stk, v, f) ==
    LET is_or == f.attr = "or"
        x == v
    IN  IF h[x].kind # "IntLit" THEN Raise(h, stk, "AssertionError")
        ELSE IF (is_or /\ h[x].ival # 0) \/ (~is_or /\ h[x].ival = 0)
        THEN LET r == int_to_block(h, x) IN YieldValue(r.h, stk, r.id)
        ELSE YieldExpr(Append(h, Access(h[f.node].context, "y")), stk, Len(h) + 1)

(* A select that takes the false branch for a non-zero condition.         *)
select_swapped(h, stk, v, f) ==
    IF h[v].kind # "IntLit" THEN Raise(h, stk, "AssertionError")
    ELSE YieldExpr(Append(h, Access(h[f.node].context,
                                    IF h[v].ival # 0 THEN "false" ELSE "true")),
                   stk, Len(h) + 1)

select_after_cond(h, stk, v, f) ==
    LET cond == v
    IN  IF h[cond].kind # "IntLit" THEN Raise(h, stk, "AssertionError")
        ELSE YieldExpr(Append(h, Access(h[f.node].context,
                                        IF h[cond].ival # 0 THEN "true" ELSE "false")),
                       stk, Len(h) + 1)

intstr_apply(h, stk, v, f) ==
    IF h[v].kind # "IntLit" THEN Raise(h, stk, "AssertionError")
    ELSE LET r == new_str_block(h, PyStr(h[v].ival)) IN YieldValue(r.h, stk, r.id)

intchr_apply(h, stk, v, f) ==
    IF h[v].kind # "IntLit" THEN Raise(h, stk, "AssertionError")
    ELSE IF PyChrRaises(h[v].ival) THEN Raise(h, stk, "ValueError")
    ELSE LET r == new_str_block(h, PyChr(h[v].ival)) IN YieldValue(r.h, stk, r.id)

strcat_after_x(h, stk, v, f) ==
    IF h[v].kind # "StringLit" THEN Raise(h, stk, "AssertionError")
    ELSE LET a == inner_of_attr(h, h[f.node].context, "y")
         IN  YieldExpr(a.h, Append(stk, Frame("strcat_apply", "", None, v, None, <<>>)),
                       a.id)

strcat_apply(h, stk, v, f) ==
    IF h[v].kind # "StringLit" THEN Raise(h, stk, "AssertionError")
    ELSE LET r == new_str_block(h, h[f.x].sval \o h[v].sval)
         IN  YieldValue(r.h, stk, r.id)

strcmp_after_x(h, stk, v, f) ==
    IF h[v].kind # "StringLit" THEN Raise(h, stk, "AssertionError")
    ELSE LET a == inner_of_attr(h, h[f.node].context, "y")
         IN  YieldExpr(a.h, Append(stk, Frame("strcmp_apply", f.attr, None, v, None, <<>>)),
                       a.id)

strcmp_apply(h, stk, v, f) ==
    IF h[v].kind # "StringLit" THEN Raise(h, stk, "AssertionError")
    ELSE IF f.attr \notin {"==", "<", "<=", ">", ">=", "!="}
    THEN Raise(h, stk, "ValueError")
    ELSE LET r == new_int_block(h, PyBool(StrCompare(f.attr, h[f.x].sval, h[v].sval)))
         IN  YieldValue(r.h, stk, r.id)

strlen_after_x(h, stk, v, f) ==
    IF h[v].kind # "StringLit" THEN Raise(h, stk, "AssertionError")
    ELSE LET r == new_int_block(h, Len(h[v].sval)) IN YieldValue(r.h, stk, r.id)

strsubstr_after_x(h, stk, v, f) ==
    IF h[v].kind # "StringLit" THEN Raise(h, stk, "AssertionError")
    ELSE LET a == inner_of_attr(h, h[f.node].context, "start")
         IN  YieldExpr(a.h,
                       Append(stk, Frame("strsubstr_after_start", "", f.node, v, None, <<>>)),
                       a.id)

strsubstr_after_start(h, stk, v, f) ==
    IF h[v].kind # "IntLit" THEN Raise(h, stk, "AssertionError")
    ELSE LET a == inner_of_attr(h, h[f.node].context, "end")
         IN  YieldExpr(a.h,
                       Append(stk, Frame("strsubstr_apply", "", None, f.x, v, <<>>)),
                       a.id)

strsubstr_apply(h, stk, v, f) ==
    IF h[v].kind # "IntLit" THEN Raise(h, stk, "AssertionError")
    ELSE LET r == new_str_block(h, PySlice(h[f.x].sval, h[f.start].ival, h[v].ival))
         IN  YieldValue(r.h, stk, r.id)

(* block.defs[attrs[0]] = value.lazy_clone(); the next key's definition    *)
(* is returned in the value position.                                      *)
eager_eval(h, stk, v, f) ==
    LET block == f.node
        attrs == f.attrs
        c == lazy_clone(h, v, <<>>)
        h1 == [c.h EXCEPT ![block].defs = DictPut(@, attrs[1], c.id)]
    IN  IF Len(attrs) = 1 THEN YieldExpr(h1, stk, block)
        ELSE YieldValue(h1,
                        Append(stk, Frame("eager_eval", "", block, None, None, Tail(attrs))),
                        block_get(h1, block, attrs[2]))

(* eager_keys and attr_clones: the keys in definition order.               *)
eager_keys(h, block) ==
    LET d == h[block].defs
    IN  DictKeys(SelectSeq(d, LAMBDA e : h[e[2]].kind = "Eager"))

attr_clones(h, block) ==
    LET d == h[block].defs
        hits == SelectSeq(d, LAMBDA e : h[e[2]].kind = "CloneAttr")
    IN  [i \in 1..Len(hits) |-> <<hits[i][1], h[hits[i][2]].attr>>]

-----------------------------------------------------------------------------
(* The source programs.                                                    *)

(* x.m[defs].result                                                        *)
Method(x, m, defs) == AAccess(AOverride(AAccess(x, m), defs), "result")

Up(k) == parse_parent_chain(k)

(* example_factor.py, with x = n.                                          *)
FactorProgram(n) ==
    ABlock(<<
      <<"factor", ABlock(<<
          <<"f", AIntLit(2)>>,
          <<"next_result",
            AAccess(AOverride(ASelfRef,
                      << <<"f", Method(AAccess(Up(1), "f"), "add",
                                       << <<"y", AIntLit(1)>> >>)>> >>),
                    "result")>>,
          <<"result",
            Method(Method(AIdentifier("x"), "mod", << <<"y", AAccess(Up(1), "f")>> >>),
                   "select",
                   << <<"false", AAccess(Up(1), "f")>>,
                      <<"true", AAccess(Up(1), "next_result")>> >>)>> >>)>>,
      <<"result", AAccess(AOverride(AIdentifier("factor"), << <<"x", AIntLit(n)>> >>),
                          "result")>> >>)

(* The Fibonacci program of the specification, section 8 scenario d:       *)
(* inside the inner override every reference is written with one '^'.      *)
(* up is the number of '^' used for n, a and b in the inner override and   *)
(* up + extra the number used inside add[y = ...].                         *)
FibProgram(k, up, extra) ==
    ABlock(<<
      <<"fib", ABlock(<<
          <<"n", AIntLit(0)>>, <<"a", AIntLit(0)>>, <<"b", AIntLit(1)>>,
          <<"result",
            Method(Method(AIdentifier("n"), "eq", << <<"y", AIntLit(0)>> >>),
                   "select",
                   << <<"true", AAccess(Up(1), "a")>>,
                      <<"false",
                        AAccess(AOverride(Up(1),
                          << <<"n", Method(AAccess(Up(up), "n"), "sub",
                                           << <<"y", AIntLit(1)>> >>)>>,
                             <<"a", AAccess(Up(up), "b")>>,
                             <<"b", Method(AAccess(Up(up), "a"), "add",
                                           << <<"y", AAccess(Up(up + extra), "b")>> >>)>> >>),
                          "result")>> >>)>> >>)>>,
      <<"result", AAccess(AOverride(AIdentifier("fib"), << <<"n", AIntLit(k)>> >>),
                          "result")>> >>)

Boom == AAccess(Up(1), "boom")

(* result = x.logical_and[y = Y].result (or logical_or); Y is ^.boom with  *)
(* boom undefined, an integer, or a string.                                *)
LogicalY(c) ==
    CASE c = 0 -> Boom
      [] c = 1 -> AIntLit(7)
      [] c = 2 -> AStringLit(<<97>>)
      [] OTHER -> AIntLit(0)

LogicalProgram(x, is_or, c) ==
    ABlock(<< <<"result", Method(AIntLit(x),
                                 IF is_or = 1 THEN "logical_or" ELSE "logical_and",
                                 << <<"y", LogicalY(c)>> >>)>> >>)

(* result = cond.select[true = .., false = ..].result; one branch may be   *)
(* missing or refer to the undefined boom, or cond is overridden by a      *)
(* string.                                                                 *)
SelectDefs(c) ==
    CASE c = 0 -> << <<"true", AIntLit(10)>>, <<"false", AIntLit(20)>> >>
      [] c = 1 -> << <<"false", AIntLit(20)>> >>
      [] c = 2 -> << <<"true", AIntLit(10)>> >>
      [] c = 3 -> << <<"true", Boom>>, <<"false", AIntLit(20)>> >>
      [] c = 4 -> << <<"true", AIntLit(10)>>, <<"false", Boom>> >>
      [] OTHER -> << <<"cond", AStringLit(<<97>>)>>, <<"true", AIntLit(10)>>,
                     <<"false", AIntLit(20)>> >>

SelectProgram(cond, c) ==
    ABlock(<< <<"result", Method(AIntLit(cond), "select", SelectDefs(c))>> >>)

(* a = {v = A, r = v.add[y=1].result}                                      *)
(* result = a.r.add[y = ^.a[v = B].r.add[y = ^.^.a.r].result].result       *)
(* reduces a.r, then the override a[v = B].r, then a.r again.              *)
IndepProgram(a, b) ==
    ABlock(<<
      <<"a", ABlock(<< <<"v", AIntLit(a)>>,
                       <<"r", Method(AIdentifier("v"), "add",
                                     << <<"y", AIntLit(1)>> >>)>> >>)>>,
      <<"result",
        Method(AAccess(AIdentifier("a"), "r"), "add",
          << <<"y", Method(AAccess(AOverride(AAccess(Up(1), "a"),
                                             << <<"v", AIntLit(b)>> >>), "r"),
                           "add",
                           << <<"y", AAccess(AAccess(Up(2), "a"), "r")>> >>)>> >>)>> >>)

(* b = {p = 1}; result = b[q = ^.boom].p (or .q), and the same with a      *)
(* Call, b(q = @.boom), whose arguments are scoped to the caller.          *)
LazyDefProgram(c) ==
    ABlock(<<
      <<"b", ABlock(<< <<"p", AIntLit(1)>> >>)>>,
      <<"result",
        AAccess(IF c < 2
                THEN AOverride(AIdentifier("b"), << <<"q", Boom>> >>)
                ELSE ACall(AIdentifier("b"), << <<"q", AAccess(ASelfRef, "boom")>> >>),
                IF c % 2 = 0 THEN "p" ELSE "q")>> >>)

Str(s) == AStringLit(s)

(* Programs for the string built-ins, eager and aliasing definitions and   *)
(* the binary and ternary surface forms.                                   *)
MiscProgram(c) ==
    CASE c = 0 -> \* "ab".cat[y = "c"].result
            ABlock(<< <<"result", Method(Str(<<97, 98>>), "cat",
                                         << <<"y", Str(<<99>>)>> >>)>> >>)
      [] c = 1 -> \* "hello".substr[start = 1, end = 4].result
            ABlock(<< <<"result", Method(Str(<<104, 101, 108, 108, 111>>), "substr",
                          << <<"start", AIntLit(1)>>, <<"end", AIntLit(4)>> >>)>> >>)
      [] c = 2 -> \* "ab".lt[y = "b"].result
            ABlock(<< <<"result", Method(Str(<<97, 98>>), "lt",
                                         << <<"y", Str(<<98>>)>> >>)>> >>)
      [] c = 3 -> \* "ab"[x = "hello"].len
            ABlock(<< <<"result",
                        AAccess(AOverride(Str(<<97, 98>>),
                                          << <<"x", Str(<<104, 105>>)>> >>), "len")>> >>)
      [] c = 4 -> \* 12.str
            ABlock(<< <<"result", AAccess(AIntLit(12), "str")>> >>)
      [] c = 5 -> \* 65.chr
            ABlock(<< <<"result", AAccess(AIntLit(65), "chr")>> >>)
      [] c = 6 -> \* f = {x = 1, r = x}; result = f(x := 2 + 1, z := 4).r
            ABlock(<<
              <<"f", ABlock(<< <<"x", AIntLit(1)>>, <<"r", AIdentifier("x")>> >>)>>,
              <<"result",
                AAccess(ACall(AIdentifier("f"),
                          << <<"x", AEager(ABinaryOp(AIntLit(2), "+", AIntLit(1)))>>,
                             <<"z", AEager(AIntLit(4))>> >>), "r")>> >>)
      [] c = 7 -> \* result = {a = 3, b <- a}.b
            ABlock(<< <<"result",
                        AAccess(ABlock(<< <<"a", AIntLit(3)>>,
                                          <<"b", ACloneAttr("a")>> >>), "b")>> >>)
      [] c = 8 -> \* result = 1 < 2 ? 10 : 20
            ABlock(<< <<"result",
                        AConditional(ABinaryOp(AIntLit(1), "<", AIntLit(2)),
                                     AIntLit(10), AIntLit(20))>> >>)
      [] c = 9 -> \* "ab".len
            ABlock(<< <<"result", AAccess(Str(<<97, 98>>), "len")>> >>)
      [] OTHER -> \* 1.add[y = "a"].result
            ABlock(<< <<"result", Method(AIntLit(1), "add",
                                         << <<"y", Str(<<97>>)>> >>)>> >>)

(* Override lineage:                                                       *)
(*   0: b = {p = 5, q = @.p};        result = b[p = 6].q                   *)
(*   1: b = {p = 5, n = @[p = ^.p]}; result = b.n.p                        *)
(*   2: b = {p = 5, s = {q = ^.p}};  result = b[p = 6].s.q                 *)
LineageProgram(c) ==
    CASE c = 0 ->
            ABlock(<<
              <<"b", ABlock(<< <<"p", AIntLit(5)>>,
                               <<"q", AAccess(ASelfRef, "p")>> >>)>>,
              <<"result", AAccess(AOverride(AIdentifier("b"),
                                            << <<"p", AIntLit(6)>> >>), "q")>> >>)
      [] c = 1 ->
            ABlock(<<
              <<"b", ABlock(<< <<"p", AIntLit(5)>>,
                               <<"n", AOverride(ASelfRef,
                                        << <<"p", AAccess(Up(1), "p")>> >>)>> >>)>>,
              <<"result", AAccess(AAccess(AIdentifier("b"), "n"), "p")>> >>)
      [] OTHER ->
            ABlock(<<
              <<"b", ABlock(<< <<"p", AIntLit(5)>>,
                               <<"s", ABlock(<< <<"q", AAccess(Up(1), "p")>> >>)>> >>)>>,
              <<"result", AAccess(AAccess(AOverride(AIdentifier("b"),
                                            << <<"p", AIntLit(6)>> >>), "s"), "q")>> >>)

(* Ancestor lookup: four nested blocks, root { a = { b = { c = { r = ^^.v  *)
(* } } } }, result = a.b.c.r.  Bit i of mask says whether level i (0 the   *)
(* root, 3 the block holding r) defines v, with value i + 1; with later =  *)
(* 1 each v is defined after the nested block.                             *)
Bit(mask, i) == (mask \div (2 ^ i)) % 2 = 1

AncestorLevel(mask, i, later, rest) ==
    IF ~Bit(mask, i) THEN rest
    ELSE IF later = 1 THEN rest \o << <<"v", AIntLit(i + 1)>> >>
    ELSE << <<"v", AIntLit(i + 1)>> >> \o rest

AncestorProgram(mask, later) ==
    ABlock(AncestorLevel(mask, 0, later, <<
      <<"a", ABlock(AncestorLevel(mask, 1, later, <<
        <<"b", ABlock(AncestorLevel(mask, 2, later, <<
          <<"c", ABlock(AncestorLevel(mask, 3, later, <<
            <<"r", AAncestorLookup("v")>> >>))>> >>))>> >>))>>,
      <<"result", AAccess(AAccess(AAccess(AIdentifier("a"), "b"), "c"), "r")>> >>))

(* Parent chains of k '^' under three kinds of scope:                      *)
(*   0: v = 0, a = {v = 1, b = {v = 2, r = ^...^.v}},  result = a.b.r      *)
(*   1: v = 0, a = {v = 1, r = @[w = ^...^.v].w},      result = a.r        *)
(*   2: v = 0, a = {v = 1, r = @(w = ^...^.v).w},      result = a.r        *)
ParentProgram(k, c) ==
    LET ref == AAccess(Up(k), "v")
        r == CASE c = 0 -> <<>>
               [] c = 1 -> << <<"r", AAccess(AOverride(ASelfRef, << <<"w", ref>> >>), "w")>> >>
               [] OTHER -> << <<"r", AAccess(ACall(ASelfRef, << <<"w", ref>> >>), "w")>> >>
        b == IF c = 0
             THEN << <<"b", ABlock(<< <<"v", AIntLit(2)>>, <<"r", ref>> >>)>> >>
             ELSE <<>>
    IN  ABlock(<<
          <<"v", AIntLit(0)>>,
          <<"a", ABlock(<< <<"v", AIntLit(1)>> >> \o b \o r)>>,
          <<"result", IF c = 0
                      THEN AAccess(AAccess(AIdentifier("a"), "b"), "r")
                      ELSE AAccess(AIdentifier("a"), "r")>> >>)

(* Every surface-only form in one program:                                 *)
(*   n = 1, result = {p = ^^n, q = ^.n, s = @.p, r = p < q ? s : q}.r      *)
SurfaceProgram ==
    ABlock(<<
      <<"n", AIntLit(1)>>,
      <<"result",
        AAccess(ABlock(<<
          <<"p", AAncestorLookup("n")>>,
          <<"q", AAccess(AParent(1), "n")>>,
          <<"s", AAccess(ASelfRef, "p")>>,
          <<"r", AConditional(ABinaryOp(AIdentifier("p"), "<", AIdentifier("q")),
                              AIdentifier("s"), AIdentifier("q"))>> >>), "r")>> >>)

(* Programs without literals and references:                               *)
(*   0: result = {a = {}, b <- a}        1: a = {}, result <- a            *)
PlainProgram(c) ==
    IF c = 0
    THEN ABlock(<< <<"result", ABlock(<< <<"a", ABlock(<<>>)>>,
                                         <<"b", ACloneAttr("a")>> >>)>> >>)
    ELSE ABlock(<< <<"a", ABlock(<<>>)>>, <<"result", ACloneAttr("a")>> >>)

(* An eager argument whose value is a block nothing else holds:            *)
(*   g = {v = {}}, f = {x = {}}, result = f(x := G.v).x  (c < 2: then .q)  *)
(* with G = g[] for even c (a fresh copy of g), G = g for odd c.           *)
WeakProgram(c) ==
    LET G == IF c % 2 = 0 THEN AOverride(AIdentifier("g"), <<>>) ELSE AIdentifier("g")
        x == AAccess(ACall(AIdentifier("f"), << <<"x", AEager(AAccess(G, "v"))>> >>), "x")
    IN  ABlock(<< <<"g", ABlock(<< <<"v", ABlock(<<>>)>> >>)>>,
                  <<"f", ABlock(<< <<"x", ABlock(<<>>)>> >>)>>,
                  <<"result", IF c < 2 THEN AAccess(x, "q") ELSE x>> >>)

(* A Call below a block that is overridden, so that the Call is cloned:    *)
(*   a = {v = 1, r = @(w = @.v).w}, result = a[v = 5].r                    *)
CallCloneProgram ==
    ABlock(<<
      <<"a", ABlock(<< <<"v", AIntLit(1)>>,
                       <<"r", AAccess(ACall(ASelfRef,
                                << <<"w", AAccess(ASelfRef, "v")>> >>), "w")>> >>)>>,
      <<"result", AAccess(AOverride(AIdentifier("a"), << <<"v", AIntLit(5)>> >>),
                          "r")>> >>)

(* The string "abc..." of length n, and programs on it:                    *)
(*   0: s.len                    1: s.substr.result                        *)
(*   2: s.substr[start = 0].result                                         *)
(*   3: s.substr[start = 0, end = n].result                                *)
(*   4: s[x = s].len                                                       *)
Prefix(n) == [i \in 1..n |-> 96 + i]

StrProgram(n, c) ==
    LET s == Str(Prefix(n))
    IN  ABlock(<< <<"result",
          CASE c = 0 -> AAccess(s, "len")
            [] c = 1 -> AAccess(AAccess(s, "substr"), "result")
            [] c = 2 -> Method(s, "substr", << <<"start", AIntLit(0)>> >>)
            [] c = 3 -> Method(s, "substr", << <<"start", AIntLit(0)>>,
                                               <<"end", AIntLit(n)>> >>)
            [] OTHER -> AAccess(AOverride(s, << <<"x", s>> >>), "len")>> >>)

(* A built-in handed the wrong kind of primitive, or a block:              *)
(*   0: 1.add[y = "a"].result          1: 1.add[x = "a", y = 1].result     *)
(*   2: 1[_inner = "a"].str            3: 1[_inner = "a"].chr              *)
(*   4: "a".cat[y = 1].result          5: "a".cat[x = 1, y = "b"].result   *)
(*   6: "a".lt[y = 1].result           7: "a".lt[x = 1, y = "b"].result    *)
(*   8: "a"[x = 1].len                                                     *)
(*   9: "a".substr[x = 1, start = 0, end = 1].result                       *)
(*  10: "a".substr[start = "b", end = 1].result                            *)
(*  11: "a".substr[start = 0, end = "b"].result                            *)
(*  12: 1.select[cond = "a", true = 1, false = 2].result                   *)
(*  13: 1.add[y = {q = 1}[_inner = {}]].result                             *)
TypeErrProgram(c) ==
    LET one == AIntLit(1)
        a == Str(<<97>>)
        b == Str(<<98>>)
    IN  ABlock(<< <<"result",
          CASE c = 0 -> Method(one, "add", << <<"y", a>> >>)
            [] c = 1 -> Method(one, "add", << <<"x", a>>, <<"y", one>> >>)
            [] c = 2 -> AAccess(AOverride(one, << <<"_inner", a>> >>), "str")
            [] c = 3 -> AAccess(AOverride(one, << <<"_inner", a>> >>), "chr")
            [] c = 4 -> Method(a, "cat", << <<"y", one>> >>)
            [] c = 5 -> Method(a, "cat", << <<"x", one>>, <<"y", b>> >>)
            [] c = 6 -> Method(a, "lt", << <<"y", one>> >>)
            [] c = 7 -> Method(a, "lt", << <<"x", one>>, <<"y", b>> >>)
            [] c = 8 -> AAccess(AOverride(a, << <<"x", one>> >>), "len")
            [] c = 9 -> Method(a, "substr", << <<"x", one>>, <<"start", AIntLit(0)>>,
                                               <<"end", one>> >>)
            [] c = 10 -> Method(a, "substr", << <<"start", b>>, <<"end", one>> >>)
            [] c = 11 -> Method(a, "substr", << <<"start", AIntLit(0)>>, <<"end", b>> >>)
            [] c = 12 -> Method(one, "select", << <<"cond", a>>, <<"true", one>>,
                                                  <<"false", AIntLit(2)>> >>)
            [] OTHER -> Method(one, "add",
                          << <<"y", AOverride(ABlock(<< <<"q", one>> >>),
                                              << <<"_inner", ABlock(<<>>)>> >>)>> >>)>> >>)

(* A block of three definitions, each an empty block or a CloneAttr that   *)
(* names one of the three:  r = {a .., b .., c ..}, result = r.a.  Digit i *)
(* of m in base four says what key i is: 0 for {}, j for `<- key j`.       *)
AttrKeys == <<"a", "b", "c">>

AttrDef(j) == IF j = 0 THEN ABlock(<<>>) ELSE ACloneAttr(AttrKeys[j])

AttrsProgram(m) ==
    ABlock(<<
      <<"r", ABlock([i \in 1..3 |->
                       <<AttrKeys[i], AttrDef((m \div (4 ^ (i - 1))) % 4)>>])>>,
      <<"result", AAccess(AIdentifier("r"), "a")>> >>)

Source(p) ==
    CASE p.name = "factor" -> FactorProgram(p.a)
      [] p.name = "fib" -> FibProgram(p.a, 1, 0)
      [] p.name = "fib2" -> FibProgram(p.a, 2, 1)
      [] p.name = "logical" -> LogicalProgram(p.a, p.b, p.c)
      [] p.name = "select" -> SelectProgram(p.a, p.c)
      [] p.name = "indep" -> IndepProgram(p.a, p.b)
      [] p.name = "lazydef" -> LazyDefProgram(p.c)
      [] p.name = "lineage" -> LineageProgram(p.c)
      [] p.name = "ancestor" -> AncestorProgram(p.a, p.b)
      [] p.name = "parent" -> ParentProgram(p.a, p.c)
      [] p.name = "misc" -> MiscProgram(p.c)
      [] p.name = "surface" -> SurfaceProgram
      [] p.name = "plain" -> PlainProgram(p.c)
      [] p.name = "weak" -> WeakProgram(p.c)
      [] p.name = "callclone" -> CallCloneProgram
      [] p.name = "str" -> StrProgram(p.a, p.c)
      [] p.name = "typeerr" -> TypeErrProgram(p.c)
      [] p.name = "attrs" -> AttrsProgram(p.c)

-----------------------------------------------------------------------------
(* The bounds of the model.                                                *)

MaxFactorArg == 9

MaxFib == 5

MaxInt == 1

(* example_factor.py: result = factor[x=533].result.                       *)
ExampleFactorArg == 533

MaxMask == 15

MaxUp == 3

MaxStrLen == 2

MaxHeap == 40

Program(name, a, b, c) == [name |-> name, a |-> a, b |-> b, c |-> c]

Programs ==
    {Program("factor", n, 0, 0) : n \in 2..MaxFactorArg}
    \cup {Program("fib", k, 0, 0) : k \in 0..MaxFib}
    \cup {Program("fib2", k, 0, 0) : k \in 0..MaxFib}
    \cup {Program("logical", x, o, c) : x \in -1..MaxInt, o \in 0..1, c \in 0..2}
    \cup {Program("select", x, 0, c) : x \in -1..MaxInt, c \in 0..5}
    \cup {Program("lineage", 0, 0, c) : c \in 0..2}
    \cup {Program("ancestor", m, l, 0) : m \in 0..MaxMask, l \in 0..1}
    \cup {Program("parent", k, 0, c) : k \in 1..MaxUp, c \in 0..2}
    \cup {Program("indep", x, y, 0) : x \in 0..MaxInt, y \in 0..MaxInt}
    \cup {Program("lazydef", 0, 0, c) : c \in 0..3}
    \cup {Program("misc", 0, 0, c) : c \in 0..10}
    \cup {Program("factor", ExampleFactorArg, 0, 0)}
    \cup {Program("surface", 0, 0, 0)}
    \cup {Program("plain", 0, 0, c) : c \in 0..1}
    \cup {Program("weak", 0, 0, c) : c \in 0..3}
    \cup {Program("callclone", 0, 0, 0)}
    \cup {Program("str", n, 0, c) : n \in 0..MaxStrLen, c \in 0..4}
    \cup {Program("typeerr", 0, 0, c) : c \in 0..13}

-----------------------------------------------------------------------------
(* program_result and evaluate_result as a state machine.                  *)

NoParser == [toks |-> <<>>, k |-> 0, defs |-> <<>>, out |-> <<>>, pc |-> "idle"]

NoSetter ==
    [d |-> <<>>, overrides |-> <<>>, stored |-> <<>>, hasco |-> FALSE,
     base |-> 0, hops |-> 0, pc |-> "idle"]

NoGraph ==
    [h |-> <<>>, node |-> 0, overrides |-> <<>>, target |-> 0, times |-> 0,
     pc |-> "idle"]

NoTokenizer ==
    [src |-> <<>>, i |-> 0, quote |-> <<>>, buf |-> <<>>, escape |-> FALSE,
     out |-> <<>>, pc |-> "idle"]

Init ==
    /\ prog \in Programs
    /\ heap = <<>>
    /\ expr = None
    /\ value = None
    /\ stack = <<>>
    /\ pc = "start"
    /\ err = ""
    /\ program = 0
    /\ last_fn = NoFrame
    /\ last_result = None
    /\ parser = NoParser
    /\ tokenizer = NoTokenizer
    /\ setter = NoSetter
    /\ graph = NoGraph

AttrPrograms == {Program("attrs", 0, 0, m) : m \in 0..63}

AttrInit ==
    /\ prog \in AttrPrograms
    /\ heap = <<>>
    /\ expr = None
    /\ value = None
    /\ stack = <<>>
    /\ pc = "start"
    /\ err = ""
    /\ program = 0
    /\ last_fn = NoFrame
    /\ last_result = None
    /\ parser = NoParser
    /\ tokenizer = NoTokenizer
    /\ setter = NoSetter
    /\ graph = NoGraph

Fail(h, e) ==
    /\ pc' = "error"
    /\ err' = e
    /\ heap' = h
    /\ UNCHANGED <<prog, expr, value, stack, program, last_fn, last_result, parser, tokenizer, setter, graph>>

(* program_result: preprocess([], program), then block_get(.., "result").  *)
ProgramResult ==
    /\ pc = "start"
    /\ LET p == preprocess(<<>>, <<>>, Source(prog))
       IN  IF p.err # "" THEN Fail(p.h, p.err)
           ELSE IF block_get_error(p.h, p.id, "result") # ""
           THEN Fail(p.h, block_get_error(p.h, p.id, "result"))
           ELSE /\ heap' = p.h
                /\ expr' = block_get(p.h, p.id, "result")
                /\ pc' = "descend"
                /\ program' = Len(p.h)
                /\ UNCHANGED <<prog, value, stack, err, last_fn, last_result, parser, tokenizer, setter, graph>>

(* The top of the loop: expr.propagate_clone().                            *)
Held == Roots({value, last_result}, Append(stack, last_fn))

Propagated == propagate_clone(heap, expr, Held \cup Roots({expr}, <<>>))

Kind == heap[expr].kind

(* One iteration that pushes frame f (or none) and continues with e.       *)
Descend(h, stk, e) ==
    /\ heap' = h
    /\ stack' = stk
    /\ expr' = e
    /\ UNCHANGED <<prog, value, pc, err, program, last_fn, last_result, parser, tokenizer, setter, graph>>

Push(f) == Append(stack, f)

ReduceAccess ==
    /\ pc = "descend" /\ Kind = "Access"
    /\ Descend(Propagated,
               Push(Frame("access_after_base", heap[expr].attr, None, None, None, <<>>)),
               Propagated[expr].base)

ReduceEager ==
    /\ pc = "descend" /\ Kind = "Eager"
    /\ Descend(Propagated, stack, Propagated[expr].base)

ReduceOverride ==
    /\ pc = "descend" /\ Kind \in {"Call", "Override"}
    /\ Descend(Propagated,
               Push(Frame("override_after_base", "", expr, None, None, <<>>)),
               Propagated[expr].base)

ReduceBackEdge ==
    /\ pc = "descend" /\ Kind = "BackEdge"
    /\ Descend(Propagated, stack, Propagated[expr].base)

(* A built-in that first reduces context.<attr>._inner.                    *)
ReduceBuiltIn(f, attr) ==
    LET a == inner_of_attr(Propagated, Propagated[expr].context, attr)
    IN  Descend(a.h, Push(f), a.id)

ReduceIntOp ==
    /\ pc = "descend" /\ Kind = "IntOp"
    /\ ReduceBuiltIn(Frame("intop_after_x", "", expr, None, None, <<>>), "x")

ReduceLogical ==
    /\ pc = "descend" /\ Kind \in {"IntLogicalOr", "IntLogicalAnd"}
    /\ ReduceBuiltIn(Frame("logical_int_op_after_x",
                           IF Kind = "IntLogicalOr" THEN "or" ELSE "and",
                           expr, None, None, <<>>), "x")

ReduceSelect ==
    /\ pc = "descend" /\ Kind = "Select"
    /\ ReduceBuiltIn(Frame("select_after_cond", "", expr, None, None, <<>>), "cond")

ReduceIntStr ==
    /\ pc = "descend" /\ Kind = "IntStr"
    /\ Descend(Append(Propagated, Access(Propagated[expr].context, "_inner")),
               Push(Frame("intstr_apply", "", None, None, None, <<>>)),
               Len(Propagated) + 1)

ReduceIntChr ==
    /\ pc = "descend" /\ Kind = "IntChr"
    /\ Descend(Append(Propagated, Access(Propagated[expr].context, "_inner")),
               Push(Frame("intchr_apply", "", None, None, None, <<>>)),
               Len(Propagated) + 1)

ReduceStrCat ==
    /\ pc = "descend" /\ Kind = "StrCat"
    /\ ReduceBuiltIn(Frame("strcat_after_x", "", expr, None, None, <<>>), "x")

ReduceStrComparison ==
    /\ pc = "descend" /\ Kind = "StrComparison"
    /\ ReduceBuiltIn(Frame("strcmp_after_x", heap[expr].attr, expr, None, None, <<>>), "x")

ReduceStrLen ==
    /\ pc = "descend" /\ Kind = "StrLen"
    /\ ReduceBuiltIn(Frame("strlen_after_x", "", None, None, None, <<>>), "x")

ReduceStrSubstr ==
    /\ pc = "descend" /\ Kind = "StrSubstr"
    /\ ReduceBuiltIn(Frame("strsubstr_after_x", "", expr, None, None, <<>>), "x")

(* expr = expr.lazy_clone(); expr.defs[target] = expr.defs[source].        *)
RECURSIVE alias_attrs(_, _, _)
alias_attrs(defs, attrs, i) ==
    IF i > Len(attrs) THEN defs
    ELSE alias_attrs(DictPut(defs, attrs[i][1], DictGet(defs, attrs[i][2])),
                     attrs, i + 1)

RECURSIVE alias_raises(_, _, _)
alias_raises(defs, attrs, i) ==
    IF i > Len(attrs) THEN FALSE
    ELSE ~DictHas(defs, attrs[i][2]) \/ alias_raises(defs, attrs, i + 1)

ExpandCloneAttrs ==
    /\ pc = "descend" /\ Kind = "Block"
    /\ attr_clones(Propagated, expr) # <<>>
    /\ LET attrs == attr_clones(Propagated, expr)
           c == lazy_clone(Propagated, expr, <<>>)
       IN  IF alias_raises(c.h[c.id].defs, attrs, 1) THEN Fail(c.h, "KeyError")
           ELSE Descend([c.h EXCEPT ![c.id].defs = alias_attrs(@, attrs, 1)],
                        stack, c.id)

StartEager ==
    /\ pc = "descend" /\ Kind = "Block"
    /\ attr_clones(Propagated, expr) = <<>>
    /\ eager_keys(Propagated, expr) # <<>>
    /\ LET attrs == eager_keys(Propagated, expr)
           c == lazy_clone(Propagated, expr, <<>>)
           h1 == propagate_clone(c.h, c.id, Held \cup Roots({c.id}, <<>>))
       IN  IF block_get_error(h1, c.id, attrs[1]) # ""
           THEN Fail(h1, block_get_error(h1, c.id, attrs[1]))
           ELSE Descend(h1, Push(Frame("eager_eval", "", c.id, None, None, attrs)),
                        block_get(h1, c.id, attrs[1]))

(* The else branch: expr is a leaf and becomes the value to deliver.       *)
Leaf ==
    /\ pc = "descend"
    /\ \/ Kind \in {"IntLit", "StringLit", "CloneAttr"}
       \/ /\ Kind = "Block"
          /\ attr_clones(Propagated, expr) = <<>>
          /\ eager_keys(Propagated, expr) = <<>>
    /\ heap' = Propagated
    /\ value' = expr
    /\ pc' = "ascend"
    /\ UNCHANGED <<prog, expr, stack, err, program, last_fn, last_result, parser, tokenizer, setter, graph>>

(* The inner loop: pop a frame, call it, and either break to the outer     *)
(* loop with an expr or propagate the returned value and go on.            *)
Top == stack[Len(stack)]

Popped == SubSeq(stack, 1, Len(stack) - 1)

Ready(fn) == pc = "ascend" /\ stack # <<>> /\ Top.fn = fn

Deliver(r) ==
    IF r.err # "" THEN Fail(r.h, r.err)
    ELSE IF r.expr # None
    THEN /\ heap' = r.h
         /\ stack' = r.stack
         /\ expr' = r.expr
         /\ pc' = "descend"
         /\ last_fn' = Top
         /\ last_result' = r.expr
         /\ UNCHANGED <<prog, value, err, program, parser, tokenizer, setter, graph>>
    ELSE /\ heap' = propagate_clone(r.h, r.value,
                                     Roots({r.value, expr}, Append(r.stack, Top)))
         /\ stack' = r.stack
         /\ value' = r.value
         /\ last_fn' = Top
         /\ last_result' = r.value
         /\ UNCHANGED <<prog, expr, pc, err, program, parser, tokenizer, setter, graph>>

Return ==
    /\ pc = "ascend" /\ stack = <<>>
    /\ pc' = "done"
    /\ UNCHANGED <<prog, heap, expr, value, stack, err, program, last_fn, last_result, parser, tokenizer, setter, graph>>

AccessAfterBase ==
    Ready("access_after_base") /\ Deliver(access_after_base(heap, Popped, value, Top))

OverrideAfterBase ==
    Ready("override_after_base") /\ Deliver(override_after_base(heap, Popped, value, Top))

IntopAfterX ==
    Ready("intop_after_x") /\ Deliver(intop_after_x(heap, Popped, value, Top))

IntopApply ==
    Ready("intop_apply") /\ Deliver(intop_apply(heap, Popped, value, Top))

LogicalIntOpAfterX ==
    Ready("logical_int_op_after_x")
    /\ Deliver(logical_int_op_after_x(heap, Popped, value, Top))

SelectAfterCond ==
    Ready("select_after_cond") /\ Deliver(select_after_cond(heap, Popped, value, Top))

IntstrApply ==
    Ready("intstr_apply") /\ Deliver(intstr_apply(heap, Popped, value, Top))

IntchrApply ==
    Ready("intchr_apply") /\ Deliver(intchr_apply(heap, Popped, value, Top))

StrcatAfterX ==
    Ready("strcat_after_x") /\ Deliver(strcat_after_x(heap, Popped, value, Top))

StrcatApply ==
    Ready("strcat_apply") /\ Deliver(strcat_apply(heap, Popped, value, Top))

StrcmpAfterX ==
    Ready("strcmp_after_x") /\ Deliver(strcmp_after_x(heap, Popped, value, Top))

StrcmpApply ==
    Ready("strcmp_apply") /\ Deliver(strcmp_apply(heap, Popped, value, Top))

StrlenAfterX ==
    Ready("strlen_after_x") /\ Deliver(strlen_after_x(heap, Popped, value, Top))

StrsubstrAfterX ==
    Ready("strsubstr_after_x") /\ Deliver(strsubstr_after_x(heap, Popped, value, Top))

StrsubstrAfterStart ==
    Ready("strsubstr_after_start")
    /\ Deliver(strsubstr_after_start(heap, Popped, value, Top))

StrsubstrApply ==
    Ready("strsubstr_apply") /\ Deliver(strsubstr_apply(heap, Popped, value, Top))

EagerEval ==
    Ready("eager_eval") /\ Deliver(eager_eval(heap, Popped, value, Top))

Next ==
    \/ ProgramResult
    \/ ReduceAccess
    \/ ReduceEager
    \/ ReduceOverride
    \/ ReduceBackEdge
    \/ ReduceIntOp
    \/ ReduceLogical
    \/ ReduceSelect
    \/ ReduceIntStr
    \/ ReduceIntChr
    \/ ReduceStrCat
    \/ ReduceStrComparison
    \/ ReduceStrLen
    \/ ReduceStrSubstr
    \/ ExpandCloneAttrs
    \/ StartEager
    \/ Leaf
    \/ Return
    \/ AccessAfterBase
    \/ OverrideAfterBase
    \/ IntopAfterX
    \/ IntopApply
    \/ LogicalIntOpAfterX
    \/ SelectAfterCond
    \/ IntstrApply
    \/ IntchrApply
    \/ StrcatAfterX
    \/ StrcatApply
    \/ StrcmpAfterX
    \/ StrcmpApply
    \/ StrlenAfterX
    \/ StrsubstrAfterX
    \/ StrsubstrAfterStart
    \/ StrsubstrApply
    \/ EagerEval

(* The loop on programs of CloneAttr definitions, while the heap has room  *)
(* for the next copy.                                                      *)
ExpandCloneAttrsInHeap == Len(heap) < MaxHeap /\ ExpandCloneAttrs

AttrNext ==
    \/ ProgramResult
    \/ ReduceAccess
    \/ ReduceBackEdge
    \/ ExpandCloneAttrsInHeap
    \/ Leaf
    \/ Return
    \/ AccessAfterBase

AttrSpec == AttrInit /\ [][AttrNext]_vars

Spec == Init /\ [][Next]_vars

-----------------------------------------------------------------------------
(* Reading a finished run: the kind and the payload of the returned        *)
(* node's _inner attribute, as run.py prints it.                           *)

Returned == pc = "done"

Raised == pc = "error"

HasInner(h, v) == h[v].kind = "Block" /\ DictHas(h[v].defs, "_inner")

InnerKind(h, v) == IF HasInner(h, v) THEN h[block_get(h, v, "_inner")].kind ELSE "none"

InnerInt(h, v) == h[block_get(h, v, "_inner")].ival

InnerStr(h, v) == h[block_get(h, v, "_inner")].sval

ReturnsInt(n) == Returned /\ InnerKind(heap, value) = "IntLit" /\ InnerInt(heap, value) = n

ReturnsStr(s) == Returned /\ InnerKind(heap, value) = "StringLit" /\ InnerStr(heap, value) = s

-----------------------------------------------------------------------------
(* Vocabulary of the properties.                                           *)

(* The override continuation is about to run on a block B = value; after   *)
(* the step the new block O is expr.                                       *)
OverrideStep == Ready("override_after_base") /\ heap[value].kind = "Block"

(* The continuations evaluate_result defines, and the node kinds its loop  *)
(* dispatches on.                                                          *)
Continuations ==
    {"access_after_base", "override_after_base", "intop_after_x", "intop_apply",
     "logical_int_op_after_x", "select_after_cond", "intstr_apply",
     "intchr_apply", "strcat_after_x", "strcat_apply", "strcmp_after_x",
     "strcmp_apply", "strlen_after_x", "strsubstr_after_x",
     "strsubstr_after_start", "strsubstr_apply", "eager_eval"}

NodeKinds ==
    AtomicKinds \cup BuiltInKinds
        \cup {"Block", "Override", "Call", "Access", "Eager", "BackEdge"}

(* Some pending Access continuation reads attribute a.                     *)
Accessing(a) ==
    \E i \in 1..Len(stack) : stack[i].fn = "access_after_base" /\ stack[i].attr = a

(* The error preprocess raises for the program, "" if none.                *)
PreprocessError == preprocess(<<>>, <<>>, Source(prog)).err

PreprocessFailed == Raised /\ PreprocessError # "" /\ err = PreprocessError

(* The node reached from block id along a path of attribute names.         *)
RECURSIVE PathGet(_, _, _)
PathGet(h, id, path) ==
    IF path = <<>> THEN id
    ELSE PathGet(h, DictGet(h[id].defs, Head(path)), Tail(path))

(* The targets of the back-edges reachable from node id through            *)
(* definitions, Access and Eager bases and built-in contexts, not crossing *)
(* an Override or Call, as they will be once the pending tables have been  *)
(* propagated.  tbl is the table the parent's propagate_clone hands down   *)
(* (empty: the parent is materialised and id is not cloned again); the     *)
(* clone a block will get is written -id.                                  *)
RECURSIVE EdgeTargets(_, _, _)
EdgeTargets(h, id, tbl) ==
    LET n == h[id]
        own == IF n.kind = "Block" THEN << <<id, -id>> >> ELSE <<>>
        eff == IF tbl = <<>> THEN n.co
               ELSE walk_redundant_paths(DictUnion(DictUnion(tbl, own), n.co))
    IN  CASE n.kind = "BackEdge" -> {chase(eff, n.base)}
          [] n.kind = "Block" ->
                UNION {EdgeTargets(h, n.defs[i][2], eff) : i \in 1..Len(n.defs)}
          [] n.kind \in {"Access", "Eager"} -> EdgeTargets(h, n.base, eff)
          [] n.kind \in BuiltInKinds -> EdgeTargets(h, n.context, eff)
          [] OTHER -> {}

SmallestFactor(n) ==
    CHOOSE f \in 2..n : n % f = 0 /\ \A g \in 2..(f - 1) : n % g # 0

RECURSIVE Fib(_)
Fib(k) == IF k < 2 THEN k ELSE Fib(k - 1) + Fib(k - 2)

-----------------------------------------------------------------------------
(* C1: reducing an Override or Call of base block B never changes B: B's   *)
(* definitions table, the definition nodes it holds and B's pending table  *)
(* are the same after the override step as before it, so B reduces to the  *)
(* same result afterwards: a.r + (a[v = B].r + a.r) is (A+1)+(B+1)+(A+1).  *)
C1_OverrideLeavesBase ==
    [][/\ OverrideStep =>
              /\ heap'[value] = heap[value]
              /\ ~heap'[value].hasco
              /\ \A i \in 1..Len(heap[value].defs) :
                     heap'[heap[value].defs[i][2]] = heap[heap[value].defs[i][2]]
       /\ prog.name = "indep" /\ pc' = "done" =>
              ReturnsInt((prog.a + 1) + (prog.b + 1) + (prog.a + 1))'
      ]_vars

C1_Witness ==
    /\ prog.name = "indep" /\ prog.a # prog.b
    /\ ReturnsInt((prog.a + 1) + (prog.b + 1) + (prog.a + 1))

(* C2, as stated: in the block O an override of B produces, no back-edge   *)
(* reachable without crossing an Override points, once propagated, into B. *)
C2_NoEdgeIntoBase ==
    [][OverrideStep /\ pc' = "descend" =>
           value \notin EdgeTargets(heap', expr', <<>>)]_vars

(* C2, amended: the back-edges reachable, without crossing an Override,    *)
(* through a definition O inherits from B never point into B once          *)
(* propagated (those that pointed to B point to O); the override's own     *)
(* definitions keep their lexical targets, which may be B.                 *)
C2_InheritedEdgesLeaveBase ==
    [][OverrideStep /\ pc' = "descend" =>
           \A i \in 1..Len(heap'[expr'].defs) :
               LET k == heap'[expr'].defs[i][1]
                   d == heap'[expr'].defs[i][2]
                   was == DictGet(heap[value].defs, k)
               IN  ~DictHas(heap[Top.node].defs, k) =>
                       /\ value \notin EdgeTargets(heap', d, <<>>)
                       /\ value \in EdgeTargets(heap, was, <<>>) =>
                              expr' \in EdgeTargets(heap', d, <<>>)
      ]_vars

(* b[p = 6] has been built and its inherited q = @.p, which pointed to b,  *)
(* points to the new block.                                                *)
C2_Witness ==
    /\ prog.name = "lineage" /\ prog.c = 0
    /\ pc = "descend" /\ stack # <<>> /\ heap[expr].kind = "Block"
    /\ DictHas(heap[expr].defs, "q")
    /\ block_get(heap, expr, "p") # block_get(heap, PathGet(heap, 1, <<"b">>), "p")
    /\ PathGet(heap, 1, <<"b">>) \in EdgeTargets(heap, PathGet(heap, 1, <<"b", "q">>), <<>>)
    /\ EdgeTargets(heap, block_get(heap, expr, "q"), <<>>) = {expr}

(* C3: when x decides the logical operator (non-zero for logical_or, zero  *)
(* for logical_and), y is never accessed, no error is raised even if y     *)
(* refers to a missing name, and the result is an int block carrying x.    *)
Decisive(p) == (p.b = 1 /\ p.a # 0) \/ (p.b = 0 /\ p.a = 0)

C3_ShortCircuit ==
    prog.name = "logical" /\ Decisive(prog) =>
        /\ ~Accessing("y")
        /\ ~Raised
        /\ Returned => ReturnsInt(prog.a)

C3_Witness ==
    /\ prog.name = "logical" /\ prog.a = 0 /\ prog.b = 0 /\ prog.c = 0
    /\ ReturnsInt(0)

(* C4: reducing an Override or Call first reduces the base expression and  *)
(* then installs each definition as an unreduced lazy clone, starting no   *)
(* reduction of a right-hand side; a definition that would fail raises     *)
(* only if its attribute is accessed later.                                *)
C4_OverrideStrictBaseLazyDefs ==
    [][/\ pc = "descend" /\ Kind \in {"Override", "Call"} =>
              /\ pc' = "descend"
              /\ expr' = Propagated[expr].base
              /\ stack' = Push(Frame("override_after_base", "", expr, None, None, <<>>))
       /\ OverrideStep /\ pc' # "error" =>
              /\ pc' = "descend"
              /\ stack' = Popped
              /\ heap'[expr'].kind = "Block"
              /\ DictKeySet(heap'[expr'].defs) =
                     DictKeySet(heap[value].defs) \cup DictKeySet(heap[Top.node].defs)
              /\ \A i \in 1..Len(heap[Top.node].defs) :
                     LET rhs == heap[Top.node].defs[i][2]
                         c == DictGet(heap'[expr'].defs, heap[Top.node].defs[i][1])
                     IN  /\ heap'[c].kind = heap[rhs].kind
                         /\ heap[rhs].kind \notin AtomicKinds =>
                                c > Len(heap) /\ heap'[c].hasco
       /\ prog.name = "lazydef" /\ prog.c \in {0, 2} =>
              pc' # "error" /\ (pc' = "done" => ReturnsInt(1)')
       /\ prog.name = "lazydef" /\ prog.c \in {1, 3} => pc' # "done"
      ]_vars

C4_Witness ==
    /\ prog.name = "lazydef" /\ prog.c = 0
    /\ ReturnsInt(1)

(* C5: Select reduces cond, which must carry an integer, and yields the    *)
(* attribute true when it is non-zero and false when it is zero; the other *)
(* branch is never accessed and may be missing or failing.                 *)
Chosen(p) == IF p.a # 0 THEN "true" ELSE "false"

Unchosen(p) == IF p.a # 0 THEN "false" ELSE "true"

BranchIsInt(c, a) ==
    DictHas(SelectDefs(c), a) /\ DictGet(SelectDefs(c), a).k = "IntLit"

C5_SelectPicksOneBranch ==
    prog.name = "select" =>
        IF prog.c = 5
        THEN /\ ~Returned
             /\ ~Accessing("true") /\ ~Accessing("false")
             /\ Raised => err = "AssertionError"
        ELSE /\ ~Accessing(Unchosen(prog))
             /\ BranchIsInt(prog.c, Chosen(prog)) =>
                    /\ ~Raised
                    /\ Returned => ReturnsInt(DictGet(SelectDefs(prog.c), Chosen(prog)).ival)
             /\ ~BranchIsInt(prog.c, Chosen(prog)) =>
                    /\ ~Returned
                    /\ Raised => err = "KeyError"

C5_Witness ==
    /\ prog.name = "select" /\ prog.a # 0 /\ prog.c = 4
    /\ ReturnsInt(10)

(* C6, as stated: when x does not decide the logical operator the result   *)
(* is an int block carrying y's integer, and a y that carries no integer   *)
(* is an error.                                                            *)
C6_NonDecisiveYieldsIntOfY ==
    prog.name = "logical" /\ ~Decisive(prog) /\ prog.c \in {1, 2} =>
        /\ prog.c = 1 => ~Raised /\ (Returned => ReturnsInt(7))
        /\ prog.c = 2 => ~Returned

(* C7: the factor program never raises and never stops short of a result  *)
(* (a pending continuation is always one the evaluator can call), and its  *)
(* result is an int block carrying the smallest f >= 2 dividing n.         *)
C7_FactorFindsSmallest ==
    prog.name = "factor" =>
        /\ ~Raised
        /\ Returned => ReturnsInt(SmallestFactor(prog.a))
        /\ pc = "ascend" /\ stack # <<>> => Top.fn \in Continuations
        /\ pc = "descend" => Kind \in NodeKinds

C7_Witness ==
    /\ prog.name = "factor" /\ prog.a = 3
    /\ ReturnsInt(3)

(* C8, as stated: the Fibonacci program with n = k evaluates to the k-th   *)
(* Fibonacci number.                                                       *)
C8_FibAsWritten ==
    prog.name = "fib" => ~Raised /\ (Returned => ReturnsInt(Fib(prog.a)))

(* C8, amended: the program as written preprocesses without error and      *)
(* yields 0 for n = 0, but for n >= 1 it raises a missing-attribute error, *)
(* '^' inside the inner override being the select override; written with   *)
(* one more '^' (^.^.n, ^.^.b, ^.^.a, and ^.^.^.b inside add) it yields    *)
(* the k-th Fibonacci number.                                              *)
C8_FibNeedsOuterScope ==
    /\ prog.name = "fib" =>
           /\ ~PreprocessFailed
           /\ IF prog.a = 0
              THEN ~Raised /\ (Returned => ReturnsInt(0))
              ELSE ~Returned /\ (Raised => err = "KeyError")
    /\ prog.name = "fib2" =>
           /\ ~Raised
           /\ Returned => ReturnsInt(Fib(prog.a))

C8_Witness ==
    /\ prog.name = "fib2" /\ prog.a = 2
    /\ ReturnsInt(Fib(2))

(* C9, as stated: an ancestor lookup of v resolves to the innermost strict *)
(* ancestor scope defining v, and preprocessing fails if there is none.    *)
Definers(p) == {i \in 0..2 : Bit(p.a, i)}

Innermost(p) == CHOOSE i \in Definers(p) : \A j \in Definers(p) : j <= i

ScopePath(i) == SubSeq(<<"a", "b", "c">>, 1, i)

LookupTarget(h) == h[h[PathGet(h, 1, <<"a", "b", "c", "r">>)].base].base

C9_InnermostAncestor ==
    prog.name = "ancestor" /\ pc # "start" =>
        IF Definers(prog) = {}
        THEN PreprocessFailed /\ err = "KeyError"
        ELSE /\ ~Raised
             /\ LookupTarget(heap) = PathGet(heap, 1, ScopePath(Innermost(prog)))
             /\ Returned => ReturnsInt(Innermost(prog) + 1)

(* C10: k '^' tokens are Parent(k), which resolves to the scope k places   *)
(* out from the innermost of the enclosing Block and Override scopes (a    *)
(* Call pushes none), and preprocessing fails when fewer than k + 1 scopes *)
(* enclose it.                                                             *)
ParentScopes(h, c) ==
    CASE c = 0 -> <<1, PathGet(h, 1, <<"a">>), PathGet(h, 1, <<"a", "b">>)>>
      [] c = 1 -> <<1, PathGet(h, 1, <<"a">>), h[PathGet(h, 1, <<"a", "r">>)].base>>
      [] OTHER -> <<1, PathGet(h, 1, <<"a">>)>>

ParentDepth(c) == IF c = 2 THEN 2 ELSE 3

ParentEdge(h, c) ==
    IF c = 0 THEN h[PathGet(h, 1, <<"a", "b", "r">>)].base
    ELSE h[DictGet(h[h[PathGet(h, 1, <<"a", "r">>)].base].defs, "w")].base

C10_ParentResolution ==
    prog.name = "parent" /\ pc # "start" =>
        /\ Up(prog.a) = AParent(prog.a)
        /\ IF prog.a + 1 > ParentDepth(prog.c)
           THEN PreprocessFailed /\ err = "AssertionError"
           ELSE /\ ~Raised
                /\ heap[ParentEdge(heap, prog.c)].kind = "BackEdge"
                /\ heap[ParentEdge(heap, prog.c)].base =
                       ParentScopes(heap, prog.c)[ParentDepth(prog.c) - prog.a]
                /\ Returned => ReturnsInt(ParentDepth(prog.c) - prog.a - 1)

C10_Witness ==
    /\ prog.name = "parent" /\ prog.a = 1 /\ prog.c = 2
    /\ ReturnsInt(0)
    /\ heap[ParentEdge(heap, 2)].base = 1

-----------------------------------------------------------------------------
(* The node kinds that exist only in the parser's output.                  *)
SurfaceKinds ==
    {"Identifier", "SelfRef", "Parent", "AncestorLookup", "BinaryOp", "Conditional"}

(* The surface-only kinds a source tree uses.                              *)
RECURSIVE SurfaceForms(_)
SurfaceForms(e) ==
    (IF e.k \in SurfaceKinds THEN {e.k} ELSE {})
        \cup UNION {SurfaceForms(e.sub[i]) : i \in 1..Len(e.sub)}
        \cup UNION {SurfaceForms(e.defs[i][2]) : i \in 1..Len(e.defs)}

(* C11: the graph preprocess returns (every node it built, the generated   *)
(* primitive blocks included) holds no Identifier, SelfRef, Parent,        *)
(* AncestorLookup, BinaryOp or Conditional, only kinds the evaluator's     *)
(* loop dispatches on, and the loop never meets a surface-only node.       *)
C11_NoSurfaceNodes ==
    /\ program > 0 /\ Len(heap) = program =>
          \A i \in 1..Len(heap) :
              heap[i].kind \notin SurfaceKinds /\ heap[i].kind \in NodeKinds
    /\ pc = "descend" => Kind \notin SurfaceKinds

C11_Witness ==
    /\ SurfaceForms(Source(prog)) = SurfaceKinds
    /\ pc = "descend"
    /\ stack = <<>>
    /\ \E i \in 1..Len(heap) : heap[i].kind = "IntOp"

-----------------------------------------------------------------------------
(* preprocess applied to a graph of nodes: the node as preprocess's        *)
(* isinstance chain sees it.  Block, Override, Call, Access, Eager,        *)
(* CloneAttr, IntLit and StringLit have a branch that reads their fields;  *)
(* a BackEdge or a built-in reaches the final else, which reads nothing.   *)
RECURSIVE AsInput(_, _)
AsInput(h, id) ==
    LET n == h[id]
        defs == [i \in 1..Len(n.defs) |-> <<n.defs[i][1], AsInput(h, n.defs[i][2])>>]
    IN  CASE n.kind = "Block" -> ABlock(defs)
          [] n.kind = "Override" -> AOverride(AsInput(h, n.base), defs)
          [] n.kind = "Call" -> ACall(AsInput(h, n.base), defs)
          [] n.kind = "Access" -> AAccess(AsInput(h, n.base), n.attr)
          [] n.kind = "Eager" -> AEager(AsInput(h, n.base))
          [] n.kind = "CloneAttr" -> ACloneAttr(n.attr)
          [] n.kind = "IntLit" -> AIntLit(n.ival)
          [] n.kind = "StringLit" -> AStringLit(n.sval)
          [] OTHER -> Ast(n.kind, <<>>, <<>>, "", 0, <<>>)

(* Structural equality of the graph under a in heap g and the graph under  *)
(* b in heap h, modulo identity: same kinds, keys in the same order, and   *)
(* payloads, equal children, and back-edges that point to corresponding    *)
(* enclosing nodes (pairs holds the corresponding nodes above).            *)
RECURSIVE StructEq(_, _, _, _, _)
StructEq(g, a, h, b, pairs) ==
    LET m == g[a]
        n == h[b]
        below == pairs \cup {<<a, b>>}
    IN  /\ m.kind = n.kind /\ m.attr = n.attr /\ m.ival = n.ival /\ m.sval = n.sval
        /\ DictKeys(m.defs) = DictKeys(n.defs)
        /\ \A i \in 1..Len(m.defs) :
              StructEq(g, m.defs[i][2], h, n.defs[i][2], below)
        /\ IF m.kind = "BackEdge" THEN <<m.base, n.base>> \in pairs
           ELSE (m.base = None) = (n.base = None)
                /\ (m.base # None => StructEq(g, m.base, h, n.base, below))
        /\ (m.context = None) = (n.context = None)
        /\ (m.context # None => StructEq(g, m.context, h, n.context, below))

(* The state program_result is in between preprocess and evaluate_result,  *)
(* and preprocess applied once more to the graph it holds.                 *)
Preprocessed ==
    pc = "descend" /\ stack = <<>> /\ heap = preprocess(<<>>, <<>>, Source(prog)).h

PreprocessedAgain == preprocess(<<>>, <<>>, AsInput(heap, 1))

(* C12: preprocessing is idempotent: preprocess applied to the graph a     *)
(* previous preprocess returned succeeds and returns a structurally equal  *)
(* graph.                                                                  *)
C12_PreprocessIdempotent ==
    Preprocessed =>
        /\ PreprocessedAgain.err = ""
        /\ StructEq(heap, 1, PreprocessedAgain.h, PreprocessedAgain.id, {})

-----------------------------------------------------------------------------
(* C13: a block is never inspected while its pending clone table is        *)
(* present: every block delivered as a value to the continuation stack     *)
(* (and so every block block_get is applied to) has no pending table, and  *)
(* block_get's assertion on the table never ends a run.                    *)
C13_NoPendingBlockInspected ==
    /\ pc = "ascend" /\ heap[value].kind = "Block" => ~heap[value].hasco
    /\ ~(/\ Raised /\ err = "AssertionError"
         /\ stack # <<>> /\ Top.fn = "access_after_base"
         /\ value # None /\ heap[value].kind = "Block" /\ heap[value].hasco)

-----------------------------------------------------------------------------
(* C14: at every point of a run the base of every BackEdge is a Block or   *)
(* an Override, never a Call or another kind of node, and no pending table *)
(* redirects a back-edge to anything but a Block or an Override: a Call    *)
(* pushes no scope in preprocess and enters no copy of itself into the     *)
(* table.                                                                  *)
ScopeKinds == {"Block", "Override"}

C14_BackEdgeBaseIsScope ==
    program > 0 =>
        \A i \in 1..Len(heap) :
            /\ heap[i].kind = "BackEdge" =>
                  /\ heap[i].base \in 1..Len(heap)
                  /\ heap[heap[i].base].kind \in ScopeKinds
            /\ \A j \in 1..Len(heap[i].co) :
                  heap[heap[i].co[j][2]].kind \in ScopeKinds

(* A copy of the Call has been made and propagated, its base edge now      *)
(* pointing to the copy of a, and the run has returned 5.                  *)
C14_Witness ==
    /\ prog.name = "callclone"
    /\ ReturnsInt(5)
    /\ \E i \in 1..Len(heap) :
          /\ i > program /\ heap[i].kind = "Call" /\ ~heap[i].hasco
          /\ heap[heap[i].base].kind = "BackEdge"
          /\ heap[heap[i].base].base > program
          /\ heap[heap[heap[i].base].base].kind = "Block"

-----------------------------------------------------------------------------
(* C15: for every string block s, reducing s.len succeeds and yields the   *)
(* int block of the length of s.                                           *)
C15_LenIsLength ==
    prog.name = "str" /\ prog.c = 0 =>
        /\ ~Raised
        /\ Returned => ReturnsInt(Len(Prefix(prog.a)))

(* C16: for every string s, s.substr.result and s.substr[start=0].result   *)
(* reduce without error to a string block equal to s: start defaults to 0  *)
(* and end to the length of s.                                             *)
C16_SubstrDefaults ==
    prog.name = "str" /\ prog.c \in {1, 2} =>
        /\ ~Raised
        /\ Returned => ReturnsStr(Prefix(prog.a))

-----------------------------------------------------------------------------
(* The primitive kind each continuation of a built-in asserts of the value *)
(* it is handed; "" for the continuations that assert none.                *)
Required(f) ==
    CASE f \in {"intop_after_x", "intop_apply", "select_after_cond", "intstr_apply",
                "intchr_apply", "strsubstr_after_start", "strsubstr_apply"} -> "IntLit"
      [] f \in {"strcat_after_x", "strcat_apply", "strcmp_after_x", "strcmp_apply",
                "strlen_after_x", "strsubstr_after_x"} -> "StringLit"
      [] OTHER -> ""

(* A built-in is about to receive something other than its primitive.      *)
TypeError ==
    /\ pc = "ascend" /\ stack # <<>>
    /\ Required(Top.fn) # ""
    /\ heap[value].kind # Required(Top.fn)

(* C17: type errors are fatal: when a built-in (IntOp, Select, IntStr,     *)
(* IntChr, StrCat, StrComparison, StrLen, StrSubstr) has reduced an        *)
(* argument through _inner and got something other than the primitive it   *)
(* requires, the next step ends the run with an assertion error: no value  *)
(* is produced, none is delivered to a frame, and a program with such an   *)
(* argument never returns.                                                 *)
C17_TypeErrorsFatal ==
    [][/\ TypeError =>
            /\ pc' = "error" /\ err' = "AssertionError"
            /\ value' = value /\ stack' = stack /\ expr' = expr
       /\ prog.name = "typeerr" => pc' # "done"]_vars

C17_Witness ==
    /\ prog.name = "typeerr" /\ prog.c = 0
    /\ Raised /\ err = "AssertionError"
    /\ stack # <<>> /\ Top.fn = "intop_apply"
    /\ heap[value].kind = "StringLit"

-----------------------------------------------------------------------------
(* src/parser.py: the recursive-descent parser over a token list.  The     *)
(* Parser object is its token list toks and its position k (0-based).  A   *)
(* parse function gives back the position it stopped at, what it built,    *)
(* and "ParseError" in err when it raised.  parser.py has its own node     *)
(* classes (Definition, Block, Override, ...): a Definition is the pair    *)
(* <<name, expr>> and a list of Definitions may repeat a name.             *)

MaxDefs == 3

Token(typ, val) == [typ |-> typ, val |-> val]

Definition(name, e) == <<name, e>>

parser_Node(kind, base, defs, name, val) ==
    [kind |-> kind, base |-> base, defs |-> defs, name |-> name, value |-> val]

parser_Block(defs) == parser_Node("Block", <<>>, defs, "", 0)

parser_Identifier(name) == parser_Node("Identifier", <<>>, <<>>, name, 0)

parser_IntLit(v) == parser_Node("IntLit", <<>>, <<>>, "", v)

parser_StringLit(s) == parser_Node("StringLit", <<>>, <<>>, "", s)

parser_SelfRef == parser_Node("SelfRef", <<>>, <<>>, "", 0)

parser_Parent(depth) == parser_Node("Parent", <<>>, <<>>, "", depth)

parser_Access(base, attr) == parser_Node("Access", base, <<>>, attr, 0)

parser_Override(base, defs) == parser_Node("Override", base, defs, "", 0)

Parsed(k, node) == [k |-> k, node |-> node, err |-> ""]

ParseError(k) == [k |-> k, node |-> <<>>, err |-> "ParseError"]

\* int() of an INT token's text: decimal digits after an optional "-".
RECURSIVE int_digits(_, _)
int_digits(s, acc) ==
    IF s = <<>> THEN acc ELSE int_digits(Tail(s), 10 * acc + (Head(s) - 48))

int(s) == IF Head(s) = 45 THEN 0 - int_digits(Tail(s), 0) ELSE int_digits(s, 0)

peek(toks, k, t) ==
    IF k + t < Len(toks) THEN toks[k + t + 1] ELSE toks[Len(toks)]

\* match(*types) at position k: whether the token there has one of the
\* types; the caller advances k by one when it does.
match(toks, k, types) == peek(toks, k, 0).typ \in types

expect(toks, k, typ) ==
    IF match(toks, k, {typ}) THEN Parsed(k + 1, peek(toks, k, 0))
    ELSE ParseError(k)

RECURSIVE consume_delims(_, _)
consume_delims(toks, k) ==
    IF peek(toks, k, 0).typ \in {",", ";", "NEWLINE"}
    THEN consume_delims(toks, k + 1)
    ELSE k

RECURSIVE parse_expr(_, _)
RECURSIVE parse_def_list_loop(_, _, _, _)
RECURSIVE parse_expr_loop(_, _, _)

parse_definition(toks, k) ==
    LET name == peek(toks, k, 0)
    IN  IF name.typ \notin {"IDENT", "DOLLAR"} THEN ParseError(k)
        ELSE LET eq == expect(toks, k + 1, "=")
             IN  IF eq.err # "" THEN eq
                 ELSE LET e == parse_expr(toks, eq.k)
                      IN  IF e.err # "" THEN e
                          ELSE Parsed(e.k, Definition(name.val, e.node))

\* The while loop of parse_def_list_until; defs is the list so far.  No
\* step of it looks at the names already in defs.
parse_def_list_loop(toks, k, stop, defs) ==
    IF peek(toks, k, 0).typ \in stop THEN Parsed(k, defs)
    ELSE LET d == parse_definition(toks, k)
         IN  IF d.err # "" THEN d
             ELSE parse_def_list_loop(toks, consume_delims(toks, d.k), stop,
                                      Append(defs, d.node))

parse_def_list_until(toks, k, stop) ==
    parse_def_list_loop(toks, consume_delims(toks, k), stop, <<>>)

parse_primary(toks, k) ==
    LET t == peek(toks, k, 0)
    IN  CASE t.typ = "{" ->
                LET defs == parse_def_list_until(toks, k + 1, {"}"})
                IN  IF defs.err # "" THEN defs
                    ELSE LET close == expect(toks, defs.k, "}")
                         IN  IF close.err # "" THEN close
                             ELSE Parsed(close.k, parser_Block(defs.node))
          [] t.typ = "INT" -> Parsed(k + 1, parser_IntLit(int(t.val)))
          [] t.typ = "STRING" -> Parsed(k + 1, parser_StringLit(t.val))
          [] t.typ = "SELF" -> Parsed(k + 1, parser_SelfRef)
          [] t.typ = "PARENT" -> Parsed(k + 1, parser_Parent(1))
          [] t.typ = "IDENT" -> Parsed(k + 1, parser_Identifier(t.val))
          [] t.typ = "DOLLAR" -> Parsed(k + 1, parser_Identifier("$"))
          [] OTHER -> ParseError(k)

\* The while True loop of parse_expr; node is the expression so far.
parse_expr_loop(toks, k, node) ==
    IF match(toks, k, {"."})
    THEN IF match(toks, k + 1, {"PARENT"})
         THEN IF node.kind = "Parent"
              THEN parse_expr_loop(toks, k + 2, parser_Parent(node.value + 1))
              ELSE ParseError(k + 2)
         ELSE IF peek(toks, k + 1, 0).typ \in {"IDENT", "DOLLAR"}
              THEN parse_expr_loop(toks, k + 2,
                                   parser_Access(node, peek(toks, k + 1, 0).val))
              ELSE ParseError(k + 1)
    ELSE IF peek(toks, k, 0).typ = "["
    THEN LET defs == parse_def_list_until(toks, k + 1, {"]"})
         IN  IF defs.err # "" THEN defs
             ELSE LET close == expect(toks, defs.k, "]")
                  IN  IF close.err # "" THEN close
                      ELSE parse_expr_loop(toks, close.k,
                                           parser_Override(node, defs.node))
    ELSE Parsed(k, node)

parse_expr(toks, k) ==
    LET node == parse_primary(toks, k)
    IN  IF node.err # "" THEN node ELSE parse_expr_loop(toks, node.k, node.node)

-----------------------------------------------------------------------------
(* Token lists as tokenize of src/parser.py produces them: they end with   *)
(* the EOF token.  The lists below are the sources                         *)
(*     defs EOF | r = { defs } | r = x [ defs ] | defs a = | defs }         *)
(* where defs defines the names of a list over ParseNames, each with the   *)
(* same expression, separated by nothing, a comma or a newline.            *)

ParseNames == {"a", "b"}

NameLists == UNION {[1..n -> ParseNames] : n \in 0..MaxDefs}

Punct(ch) == Token(ch, ch)

Ident(name) == Token("IDENT", name)

ExprToks(v) ==
    CASE v = 0 -> <<Token("INT", <<49>>)>>
      [] v = 1 -> <<Token("PARENT", "^"), Punct("."), Token("PARENT", "^"),
                    Punct("."), Ident("x")>>
      [] v = 2 -> <<Token("STRING", <<115>>)>>

DelimToks(d) ==
    CASE d = 0 -> <<>>
      [] d = 1 -> <<Punct(",")>>
      [] d = 2 -> <<Token("NEWLINE", "\n")>>

RECURSIVE DefListToks(_, _, _)
DefListToks(names, v, d) ==
    IF names = <<>> THEN <<>>
    ELSE <<Ident(Head(names)), Punct("=")>> \o ExprToks(v)
         \o (IF Len(names) > 1 THEN DelimToks(d) ELSE <<>>)
         \o DefListToks(Tail(names), v, d)

EOF == Token("EOF", "")

ModuleToks(form, names, v, d) ==
    LET defs == DefListToks(names, v, d)
    IN  CASE form = 0 -> defs \o <<EOF>>
          [] form = 1 ->
                <<Ident("r"), Punct("="), Punct("{")>> \o defs
                \o <<Punct("}"), EOF>>
          [] form = 2 ->
                <<Ident("r"), Punct("="), Ident("x"), Punct("[")>> \o defs
                \o <<Punct("]"), EOF>>
          [] form = 3 -> defs \o <<Ident("a"), Punct("="), EOF>>
          [] form = 4 -> defs \o <<Punct("}"), EOF>>

Parser(toks) ==
    [toks |-> toks, k |-> 0, defs |-> <<>>, out |-> <<>>, pc |-> "start"]

evaluator ==
    <<prog, heap, expr, value, stack, pc, err, program, last_fn, last_result>>

\* No program is being evaluated.
EvaluatorIdle ==
    /\ prog = Program("", 0, 0, 0)
    /\ heap = <<>>
    /\ expr = None
    /\ value = None
    /\ stack = <<>>
    /\ pc = "start"
    /\ err = ""
    /\ program = 0
    /\ last_fn = NoFrame
    /\ last_result = None

ParseInit ==
    /\ EvaluatorIdle
    /\ tokenizer = NoTokenizer
    /\ setter = NoSetter
    /\ graph = NoGraph
    /\ parser \in {Parser(ModuleToks(form, names, v, d)) :
                      form \in 0..4, names \in NameLists, v \in 0..2, d \in 0..2}

\* parse_module up to its loop: defs = [], consume_delims().
ParseModuleStart ==
    /\ parser.pc = "start"
    /\ parser' = [parser EXCEPT !.defs = <<>>,
                                !.k = consume_delims(parser.toks, 0),
                                !.pc = "loop"]
    /\ UNCHANGED <<evaluator, tokenizer, setter, graph>>

\* One turn of parse_module's loop: a definition is parsed and appended.
ParseModuleDefinition ==
    /\ parser.pc = "loop"
    /\ peek(parser.toks, parser.k, 0).typ \notin {"EOF"}
    /\ peek(parser.toks, parser.k, 0).typ \in {"IDENT", "DOLLAR"}
    /\ LET d == parse_definition(parser.toks, parser.k)
       IN  IF d.err # ""
           THEN parser' = [parser EXCEPT !.k = d.k, !.pc = "error"]
           ELSE parser' = [parser EXCEPT
                               !.defs = Append(parser.defs, d.node),
                               !.k = consume_delims(parser.toks, d.k)]
    /\ UNCHANGED <<evaluator, tokenizer, setter, graph>>

\* The loop is left: expect("EOF") and return Block(defs).
ParseModuleReturn ==
    /\ parser.pc = "loop"
    /\ \/ peek(parser.toks, parser.k, 0).typ \in {"EOF"}
       \/ peek(parser.toks, parser.k, 0).typ \notin {"IDENT", "DOLLAR"}
    /\ LET eof == expect(parser.toks, parser.k, "EOF")
       IN  IF eof.err # ""
           THEN parser' = [parser EXCEPT !.pc = "error"]
           ELSE parser' = [parser EXCEPT !.k = eof.k, !.pc = "done",
                                         !.out = parser_Block(parser.defs)]
    /\ UNCHANGED <<evaluator, tokenizer, setter, graph>>

ParseNext ==
    \/ ParseModuleStart
    \/ ParseModuleDefinition
    \/ ParseModuleReturn

ParseSpec == ParseInit /\ [][ParseNext]_vars

-----------------------------------------------------------------------------
(* C18: a source in which a block, an override list or the module defines  *)
(* the same key twice is rejected with a parse error: whenever parse_module*)
(* returns, every Block and Override of the tree has pairwise different    *)
(* keys.  The parser has no such check: a = 1, a = 1 is parsed to a Block  *)
(* with two definitions of a.                                              *)

RECURSIVE UniqueKeys(_)
UniqueKeys(node) ==
    /\ \A x, y \in 1..Len(node.defs) : node.defs[x][1] = node.defs[y][1] => x = y
    /\ \A x \in 1..Len(node.defs) : UniqueKeys(node.defs[x][2])
    /\ node.kind \in {"Access", "Override"} => UniqueKeys(node.base)

C18_DuplicateKeysRejected == parser.pc = "done" => UniqueKeys(parser.out)

-----------------------------------------------------------------------------
(* src/lexer.py: Tokenizer.parse_string_lit.  The source text src is a     *)
(* sequence of code points and i the 0-based position; a character is a    *)
(* string of length one and "" is the empty sequence.  buf is the list of  *)
(* strings the scan collects.  Lines and columns are left out: they do not *)
(* enter a token's value.                                                  *)

MaxSrcLen == 3

Chr(c) == <<c>>

Tokenizer_cur(t) == IF t.i < Len(t.src) THEN Chr(t.src[t.i + 1]) ELSE <<>>

\* adv(n): n times, one position forward unless at the end of src.
RECURSIVE Tokenizer_adv(_, _)
Tokenizer_adv(t, n) ==
    IF n = 0 \/ Tokenizer_cur(t) = <<>> THEN t
    ELSE Tokenizer_adv([t EXCEPT !.i = t.i + 1], n - 1)

Tokenizer_peek(t) ==
    IF t.i + 1 >= Len(t.src) THEN <<>> ELSE Chr(t.src[t.i + 2])

\* "".join(buf)
RECURSIVE Join(_)
Join(buf) == IF buf = <<>> THEN <<>> ELSE Head(buf) \o Join(Tail(buf))

\* What the escape branch (lines 105-121) appends for the character c.
escaped(c) ==
    CASE c = Chr(110) -> <<Chr(10)>>
      [] c = Chr(116) -> <<Chr(9)>>
      [] c = Chr(114) -> <<Chr(13)>>
      [] c = Chr(92) -> <<Chr(92)>>
      [] c = Chr(34) -> <<Chr(34)>>
      [] c = Chr(39) -> <<Chr(39)>>
      [] OTHER -> <<Chr(92), c>>

\* The characters of the sources: both quotes, the backslash, n, t, r, an
\* ordinary letter and the newline.
LexChars == {34, 39, 92, 110, 116, 114, 97, 10}

Tokenizer(src) ==
    [src |-> src, i |-> 0, quote |-> <<>>, buf |-> <<>>, escape |-> FALSE,
     out |-> <<>>, pc |-> "start"]

LexInit ==
    /\ EvaluatorIdle
    /\ parser = NoParser
    /\ setter = NoSetter
    /\ graph = NoGraph
    /\ tokenizer \in {Tokenizer(<<q>> \o body) :
                         q \in {34, 39},
                         body \in UNION {[1..n -> LexChars] : n \in 0..MaxSrcLen}}

\* next_token sees a quote and calls parse_string_lit, which sets up its
\* locals before its loop.
StringLitStart ==
    /\ tokenizer.pc = "start"
    /\ Tokenizer_cur(tokenizer) \in {Chr(34), Chr(39)}
    /\ tokenizer' = [tokenizer EXCEPT !.quote = Tokenizer_cur(tokenizer),
                                      !.buf = <<>>,
                                      !.escape = FALSE,
                                      !.pc = "scan"]
    /\ UNCHANGED <<evaluator, parser, setter, graph>>

\* One turn of the while loop, on the character c = peek().  The escape
\* branch is followed by the three ifs below it: nothing skips them.
StringLitChar ==
    /\ tokenizer.pc = "scan"
    /\ Tokenizer_peek(tokenizer) # <<>>
    /\ LET c == Tokenizer_peek(tokenizer)
           t1 == Tokenizer_adv(tokenizer, 1)
           t2 == IF t1.escape
                 THEN [t1 EXCEPT !.buf = t1.buf \o escaped(c), !.escape = FALSE]
                 ELSE t1
           t3 == IF c = Chr(92) THEN [t2 EXCEPT !.escape = TRUE] ELSE t2
       IN  IF c = t3.quote
           THEN tokenizer' = [Tokenizer_adv(t3, 1) EXCEPT
                                  !.out = Token("STRING", Join(t3.buf)),
                                  !.pc = "done"]
           ELSE IF c = Chr(10)
           THEN tokenizer' = [t3 EXCEPT !.pc = "error"]
           ELSE tokenizer' = [t3 EXCEPT !.buf = Append(t3.buf, c)]
    /\ UNCHANGED <<evaluator, parser, setter, graph>>

\* The text ends inside the literal: LexError (line 133).
StringLitUnterminated ==
    /\ tokenizer.pc = "scan"
    /\ Tokenizer_peek(tokenizer) = <<>>
    /\ tokenizer' = [tokenizer EXCEPT !.pc = "error"]
    /\ UNCHANGED <<evaluator, parser, setter, graph>>

LexNext ==
    \/ StringLitStart
    \/ StringLitChar
    \/ StringLitUnterminated

LexSpec == LexInit /\ [][LexNext]_vars

-----------------------------------------------------------------------------
(* C19: in the scan of a string literal, a character that follows an       *)
(* unescaped backslash adds exactly one string to the value, the designated*)
(* character for n, t, r, backslash and the two quotes, and does not end   *)
(* the literal even when it is the quote; the backslash that starts an     *)
(* escape adds nothing by itself; every other unescaped character except   *)
(* the closing quote adds itself once.  In parse_string_lit the escape     *)
(* branch falls through to the ifs after it.                               *)

Designated == {Chr(110), Chr(116), Chr(114), Chr(92), Chr(34), Chr(39)}

C19_EscapesDecoded ==
    [][StringLitChar =>
        LET c == Tokenizer_peek(tokenizer)
        IN  /\ tokenizer.escape /\ c \in Designated =>
                /\ tokenizer'.pc = "scan"
                /\ tokenizer'.buf = tokenizer.buf \o escaped(c)
                /\ ~tokenizer'.escape
            /\ ~tokenizer.escape /\ c = Chr(92) =>
                /\ tokenizer'.buf = tokenizer.buf
                /\ tokenizer'.escape
            /\ ~tokenizer.escape /\ c \notin {Chr(92), Chr(10), tokenizer.quote} =>
                tokenizer'.buf = Append(tokenizer.buf, c)]_vars

-----------------------------------------------------------------------------
(* C20: evaluate_result returns only from the inner loop with an empty     *)
(* stack (pc = "ascend"), and the node it returns is in normal form: an    *)
(* IntLit or a StringLit, or a Block whose clone table is None and none of *)
(* whose definitions is an Eager or a CloneAttr node.  The first half      *)
(* holds; a block taken from a dropped copy comes back with its table      *)
(* still set, and a result defined by <- comes back as the CloneAttr node. *)

NormalForm(h, id) ==
    \/ h[id].kind \in {"IntLit", "StringLit"}
    \/ /\ h[id].kind = "Block"
       /\ ~h[id].hasco
       /\ \A j \in 1..Len(h[id].defs) :
              h[h[id].defs[j][2]].kind \notin {"Eager", "CloneAttr"}

C20_ReturnsNormalForm ==
    [][pc' = "done" =>
          /\ pc = "ascend"
          /\ stack = <<>>
          /\ NormalForm(heap', value')]_vars

-----------------------------------------------------------------------------
(* C21: every resume of an eager_eval frame stores a reduced value, never  *)
(* an Eager node, into the clone's attribute, and the block the last       *)
(* resume emits has no Eager definition left.  With two or more eager keys *)
(* _eager_eval hands the next key's definition back in the value position, *)
(* so the next resume receives and stores the unreduced Eager node.        *)

C21_EagerStoresReduced ==
    [][EagerEval =>
          /\ heap[value].kind # "Eager"
          /\ pc' = "descend" => eager_keys(heap', expr') = <<>>]_vars

-----------------------------------------------------------------------------
(* C22: a block whose CloneAttr definitions the evaluator has just         *)
(* expanded is inspected next (the leaf branch or the eager branch, after  *)
(* expr.propagate_clone()); in the block as inspected every key k defined  *)
(* as CloneAttr(a) is bound to the same node as a.  The expansion does     *)
(* bind both keys to one node, but the copy still carries its pending      *)
(* table, and propagate_clone clones the definitions key by key.           *)

\* The block the current expr was copied from by the CloneAttr branch.
Origins ==
    {heap[expr].co[j][1] : j \in {x \in 1..Len(heap[expr].co) :
                                     heap[expr].co[x][2] = expr}}

JustExpanded(origin) ==
    /\ Kind = "Block"
    /\ attr_clones(heap, origin) # <<>>
    /\ attr_clones(heap, expr) = <<>>

SameNode(h, block, attrs) ==
    \A i \in 1..Len(attrs) :
        DictGet(h[block].defs, attrs[i][1]) = DictGet(h[block].defs, attrs[i][2])

C22_AliasesShareNode ==
    [][pc = "descend" =>
          \A origin \in Origins :
              JustExpanded(origin) /\ (Leaf \/ StartEager) /\ pc' # "error" =>
                  SameNode(heap', expr, attr_clones(heap, origin))]_vars

-----------------------------------------------------------------------------
(* src/nodes.py: the clone_overrides setter and BackEdge.propagate_clone,  *)
(* step by step, on a BackEdge whose base is one of a few nodes.  The      *)
(* table handed to the setter is any list of at most MaxTableLen entries   *)
(* with different keys over these nodes, in any insertion order, chains    *)
(* and cycles included.  All the nodes are held, so no entry goes away.    *)

MaxTableNodes == 4

MaxTableLen == 3

MaxHops == 3

TableNodes == 1..MaxTableNodes

Tables ==
    UNION {{t \in [1..n -> TableNodes \X TableNodes] :
               \A x, y \in 1..n : t[x][1] = t[y][1] => x = y} :
           n \in 0..MaxTableLen}

SetterInit ==
    /\ EvaluatorIdle
    /\ parser = NoParser
    /\ tokenizer = NoTokenizer
    /\ graph = NoGraph
    /\ setter \in {[d |-> t, overrides |-> t, stored |-> <<>>, hasco |-> FALSE,
                    base |-> b, hops |-> 0, pc |-> "set"] :
                      t \in Tables, b \in TableNodes}

\* One turn of the while True loop of _walk_redundant_paths: the pass over
\* the items, then either return overrides (it becomes the node's table)
\* or go round again with new_result.
WalkPass ==
    /\ setter.pc = "set"
    /\ LET new_result == walk_pass(setter.overrides, 1, <<>>, {})
       IN  IF Len(new_result) = Len(setter.overrides)
           THEN setter' = [setter EXCEPT !.stored = setter.overrides,
                                         !.hasco = TRUE,
                                         !.pc = "propagate"]
           ELSE setter' = [setter EXCEPT !.overrides = new_result]
    /\ UNCHANGED <<evaluator, parser, tokenizer, graph>>

\* propagate_clone with an empty table: the if is not entered.
PropagateEmpty ==
    /\ setter.pc = "propagate"
    /\ setter.stored = <<>>
    /\ setter' = [setter EXCEPT !.pc = "done"]
    /\ UNCHANGED <<evaluator, parser, tokenizer, graph>>

\* One turn of `while new_base := overrides.get(self.base, None)`.
FollowTable ==
    /\ setter.pc \in {"propagate", "follow"}
    /\ setter.stored # <<>>
    /\ DictGet(setter.stored, setter.base) # None
    /\ setter.hops < MaxHops
    /\ setter' = [setter EXCEPT !.base = DictGet(setter.stored, setter.base),
                                !.hops = setter.hops + 1,
                                !.pc = "follow"]
    /\ UNCHANGED <<evaluator, parser, tokenizer, graph>>

\* The while loop is left: self.clone_overrides = None.
ClearTable ==
    /\ setter.pc \in {"propagate", "follow"}
    /\ setter.stored # <<>>
    /\ DictGet(setter.stored, setter.base) = None
    /\ setter' = [setter EXCEPT !.stored = <<>>, !.hasco = FALSE, !.pc = "done"]
    /\ UNCHANGED <<evaluator, parser, tokenizer, graph>>

SetterNext ==
    \/ WalkPass
    \/ PropagateEmpty
    \/ FollowTable
    \/ ClearTable

SetterSpec == SetterInit /\ [][SetterNext]_vars

-----------------------------------------------------------------------------
(* C23: for an acyclic table, in whatever order its entries were inserted, *)
(* the table the setter stores still has every key that is not the target *)
(* of another entry, and maps it to the last node of its chain in the      *)
(* input.  For a chain of three entries the result depends on the order:   *)
(* b -> c, a -> b, c -> d is stored as a -> c.                             *)

\* The node a chain starting at x ends at, None when it does not end
\* within fuel steps.
RECURSIVE Last(_, _, _)
Last(d, x, fuel) ==
    IF ~DictHas(d, x) THEN x
    ELSE IF fuel = 0 THEN None
    ELSE Last(d, DictGet(d, x), fuel - 1)

Acyclic(d) == \A k \in DictKeySet(d) : Last(d, k, Len(d)) # None

Targets(d) == {d[j][2] : j \in 1..Len(d)}

C23_ChainsCollapsed ==
    setter.pc = "propagate" /\ Acyclic(setter.d) =>
        \A k \in DictKeySet(setter.d) \ Targets(setter.d) :
            /\ DictHas(setter.stored, k)
            /\ DictGet(setter.stored, k) = Last(setter.d, k, Len(setter.d))

-----------------------------------------------------------------------------
(* C30: every table the setter stores is chain-free: no value of it is one *)
(* of its keys.  The collapsing loop terminates for every table, cycles    *)
(* included: a pass that does not store its table leaves a strictly        *)
(* shorter one.  BackEdge.propagate_clone therefore follows the table at   *)
(* most one step, and the base it ends at is not a key of the table it     *)
(* consumed.                                                               *)

ChainFree(t) == \A j \in 1..Len(t) : ~DictHas(t, t[j][2])

C30_StoredTablesChainFree ==
    [][/\ WalkPass /\ setter'.pc = "set" =>
              Len(setter'.overrides) < Len(setter.overrides)
       /\ setter'.pc = "propagate" => ChainFree(setter'.stored)
       /\ FollowTable => setter.hops = 0
       /\ setter'.pc = "done" => ~DictHas(setter.stored, setter'.base)]_vars

\* A cyclic table was collapsed and the back-edge followed it one step.
C30_Witness ==
    /\ setter.pc = "done"
    /\ setter.hops = 1
    /\ ~Acyclic(setter.d)
    /\ Len(setter.overrides) < Len(setter.d)

-----------------------------------------------------------------------------
(* src/nodes.py: lazy_clone and propagate_clone called directly on a node  *)
(* of a small graph that has one node of every class.  The node may carry  *)
(* a pending table of its own, and lazy_clone is given a table or None     *)
(* (the empty table here: both read as `overrides or _Empty`).  Tables are *)
(* such as the setter stores: chain-free.  Every node of the graph is      *)
(* held, so no table entry goes away.                                      *)

MaxPropagations == 2

GraphNodes ==
    << Block(<< <<"a", 3>>, <<"b", 4>>, <<"c", 5>> >>),
       Block(<<>>),
       IntLit(7),
       Block(<< <<"p", 6>> >>),
       BackEdge(1),
       Access(5, "a"),
       Override(4, << <<"q", 3>>, <<"r", 5>> >>),
       Call(4, << <<"q", 6>> >>),
       Eager(6),
       BuiltInFn("IntOp", 5, "add"),
       CloneAttr("a"),
       StringLit(<<97>>),
       Node("Identifier", <<>>, None, None, "x", 0, <<>>) >>

\* The nodes that tables redirect: the three blocks.
Redirected == {1, 2, 4}

PendingTables ==
    {t \in UNION {[1..n -> Redirected \X Redirected] : n \in 0..2} :
        /\ \A x, y \in 1..Len(t) : t[x][1] = t[y][1] => x = y
        /\ \A x, y \in 1..Len(t) : t[x][2] # t[y][1]}

WithTable(n, t) == [n EXCEPT !.co = t, !.hasco = TRUE]

GraphInit ==
    /\ EvaluatorIdle
    /\ parser = NoParser
    /\ tokenizer = NoTokenizer
    /\ setter = NoSetter
    /\ \E id \in 1..Len(GraphNodes), overrides \in PendingTables :
          \/ graph = [h |-> GraphNodes, node |-> id, overrides |-> overrides,
                      target |-> id, times |-> 0, pc |-> "start"]
          \/ /\ GraphNodes[id].kind \notin AtomicKinds
             /\ \E own \in PendingTables :
                   graph = [h |-> [GraphNodes EXCEPT ![id] = WithTable(@, own)],
                            node |-> id, overrides |-> overrides,
                            target |-> id, times |-> 0, pc |-> "start"]

\* node.lazy_clone(overrides); the copy is the node looked at from now on.
LazyClone ==
    /\ graph.pc = "start"
    /\ LET c == lazy_clone(graph.h, graph.node, graph.overrides)
       IN  graph' = [graph EXCEPT !.h = c.h, !.target = c.id, !.pc = "cloned"]
    /\ UNCHANGED <<evaluator, parser, tokenizer, setter>>

\* target.propagate_clone(), on the node itself or on its copy.
PropagateClone ==
    /\ graph.pc \in {"start", "cloned", "propagated"}
    /\ graph.times < MaxPropagations
    /\ graph' = [graph EXCEPT
                     !.h = propagate_clone(graph.h, graph.target,
                                           1..Len(graph.h)),
                     !.times = graph.times + 1,
                     !.pc = "propagated"]
    /\ UNCHANGED <<evaluator, parser, tokenizer, setter>>

GraphNext ==
    \/ LazyClone
    \/ PropagateClone

GraphSpec == GraphInit /\ [][GraphNext]_vars

-----------------------------------------------------------------------------
(* C24: lazy_clone of an atomic node returns the node itself.  For any     *)
(* other node it returns a fresh node and leaves every existing node as it *)
(* was; the copy has the original's kind and children, and its pending     *)
(* table is the union of the caller's table, the entry self -> copy when   *)
(* the node is a Block or an Override, and the node's own table (a later   *)
(* one winning on a common key).  As stated this fails when the union has  *)
(* a chain: the table goes through the setter, which collapses it.         *)

Entries(t) == {t[j] : j \in 1..Len(t)}

Keys(ps) == {p[1] : p \in ps}

\* The union as a set of entries, for the copy of node id numbered copy.
UnionEntries(h, id, overrides, copy) ==
    LET own == Entries(h[id].co)
        self == IF h[id].kind \in {"Block", "Override"} THEN {<<id, copy>>} ELSE {}
    IN  own \cup {p \in self : p[1] \notin Keys(own)}
            \cup {p \in Entries(overrides) : p[1] \notin Keys(own) \cup Keys(self)}

NoChain(ps) == \A p, q \in ps : p[2] # q[1]

\* Fresh copy, nothing else touched, same kind and children.
ShallowCopy(h, h2, id, copy) ==
    /\ copy = Len(h) + 1
    /\ Len(h2) = Len(h) + 1
    /\ \A j \in 1..Len(h) : h2[j] = h[j]
    /\ h2[copy].hasco
    /\ [h2[copy] EXCEPT !.co = <<>>, !.hasco = FALSE]
           = [h[id] EXCEPT !.co = <<>>, !.hasco = FALSE]

AtomicReturnsSelf(h, h2, id, copy) == copy = id /\ h2 = h

C24_TableIsUnion ==
    [][LazyClone =>
          IF graph.h[graph.node].kind \in AtomicKinds
          THEN AtomicReturnsSelf(graph.h, graph'.h, graph.node, graph'.target)
          ELSE /\ ShallowCopy(graph.h, graph'.h, graph.node, graph'.target)
               /\ Entries(graph'.h[graph'.target].co)
                      = UnionEntries(graph.h, graph.node, graph.overrides,
                                     graph'.target)]_vars

\* The table of the copy is what the setter makes of the union: the union
\* itself when it has no chain, and always a chain-free table over keys of
\* the union.
C24_TableIsCollapsedUnion ==
    [][LazyClone =>
          IF graph.h[graph.node].kind \in AtomicKinds
          THEN AtomicReturnsSelf(graph.h, graph'.h, graph.node, graph'.target)
          ELSE LET u == UnionEntries(graph.h, graph.node, graph.overrides,
                                     graph'.target)
                   t == graph'.h[graph'.target].co
               IN  /\ ShallowCopy(graph.h, graph'.h, graph.node, graph'.target)
                   /\ NoChain(u) => Entries(t) = u
                   /\ NoChain(Entries(t))
                   /\ Keys(Entries(t)) \subseteq Keys(u)
                   /\ Keys(u) \ {p[2] : p \in u} \subseteq Keys(Entries(t))
                   /\ {p[2] : p \in Entries(t)} \subseteq {q[2] : q \in u}]_vars

\* A block with a table of its own was copied with a table from the caller
\* and the union had a chain.
C24_Witness ==
    /\ graph.pc = "cloned"
    /\ graph.target # graph.node
    /\ graph.h[graph.node].kind = "Block"
    /\ graph.h[graph.node].co # <<>>
    /\ graph.overrides # <<>>
    /\ ~NoChain(UnionEntries(graph.h, graph.node, graph.overrides, graph.target))


-----------------------------------------------------------------------------
(* C25: propagate_clone pushes the pending table one level down.  On a     *)
(* node with a non-empty table every child slot (the values of defs, base, *)
(* context, by class) holds child.lazy_clone(table) afterwards, a BackEdge *)
(* has followed the table from its base and gained no node, the node's     *)
(* table is cleared and every other node is as it was.  On a node with an  *)
(* absent or empty table, and so on a second call, nothing changes.        *)

\* The child slots of a node, by class: <<old child, new child>> pairs.
ChildSlots(n, n2) ==
    (IF n.kind \in {"Block", "Override", "Call"}
     THEN {<<n.defs[j][2], n2.defs[j][2]>> : j \in 1..Len(n.defs)} ELSE {})
    \cup (IF n.kind \in {"Access", "Eager", "Override", "Call"}
          THEN {<<n.base, n2.base>>} ELSE {})
    \cup (IF n.kind \in BuiltInKinds THEN {<<n.context, n2.context>>} ELSE {})

\* c2 is what c.lazy_clone(t) returned when the heap was h2 up to c2 - 1.
IsLazyCloneOf(h, h2, c, c2, t) ==
    IF h[c].kind \in AtomicKinds THEN c2 = c
    ELSE /\ c2 > Len(h)
         /\ c2 <= Len(h2)
         /\ lazy_clone(SubSeq(h, 1, Len(h)) \o SubSeq(h2, Len(h) + 1, c2 - 1),
                       c, t).id = c2
         /\ lazy_clone(SubSeq(h, 1, Len(h)) \o SubSeq(h2, Len(h) + 1, c2 - 1),
                       c, t).h[c2] = h2[c2]

PushedOneLevel(h, h2, id) ==
    LET n == h[id]
        n2 == h2[id]
        t == n.co
    IN  IF n.kind \in AtomicKinds \/ t = <<>> THEN h2 = h
        ELSE /\ Len(h2) >= Len(h)
             /\ \A i \in 1..Len(h) : i # id => h2[i] = h[i]
             /\ n2.co = <<>> /\ ~n2.hasco
             /\ [n2 EXCEPT !.defs = n.defs, !.base = n.base,
                           !.context = n.context,
                           !.co = n.co, !.hasco = n.hasco] = n
             /\ Len(n2.defs) = Len(n.defs)
             /\ \A j \in 1..Len(n.defs) : n2.defs[j][1] = n.defs[j][1]
             /\ n2.context # n.context => n.kind \in BuiltInKinds
             /\ IF n.kind = "BackEdge"
                THEN /\ h2 = [h EXCEPT ![id] = n2]
                     /\ n2.base = IF DictHas(t, n.base)
                                  THEN DictGet(t, n.base) ELSE n.base
                ELSE /\ \A s \in ChildSlots(n, n2) :
                            IsLazyCloneOf(h, h2, s[1], s[2], t)
                     /\ \A i \in Len(h) + 1..Len(h2) :
                            \E s \in ChildSlots(n, n2) : s[2] = i

C25_PropagateOneLevel ==
    [][PropagateClone =>
          /\ Len(graph'.h) >= Len(graph.h)
          /\ PushedOneLevel(graph.h, graph'.h, graph.target)
          /\ graph.pc = "propagated" => graph'.h = graph.h]_vars

\* A copy with a non-empty table was propagated twice and made new nodes.
C25_Witness ==
    /\ graph.pc = "propagated"
    /\ graph.times = 2
    /\ graph.target # graph.node
    /\ Len(graph.h) > Len(GraphNodes) + 1
    /\ graph.h[graph.target].co = <<>>
    /\ ~graph.h[graph.target].hasco


-----------------------------------------------------------------------------
(* C26: in an override step the substitution B -> O reaches the            *)
(* definitions inherited from the base block B only.  A back-edge inside   *)
(* one of the override's own definitions that points at B points at B      *)
(* after the step as well; such a definition holds a back-edge to the new  *)
(* block O exactly when it held one to the Override node, and holds none   *)
(* to the Override node afterwards.                                        *)

\* EdgeTargets carried through Override and Call nodes as well (base and
\* definitions); an Override enters itself into the table as a Block does.
RECURSIVE BackEdgeTargets(_, _, _)
BackEdgeTargets(h, id, tbl) ==
    LET n == h[id]
        own == IF n.kind \in {"Block", "Override"}
               THEN << <<id, -id>> >> ELSE <<>>
        eff == IF tbl = <<>> THEN n.co
               ELSE walk_redundant_paths(DictUnion(DictUnion(tbl, own), n.co))
        below == UNION {BackEdgeTargets(h, n.defs[i][2], eff) :
                            i \in 1..Len(n.defs)}
    IN  CASE n.kind = "BackEdge" -> {chase(eff, n.base)}
          [] n.kind = "Block" -> below
          [] n.kind \in {"Override", "Call"} ->
                below \cup BackEdgeTargets(h, n.base, eff)
          [] n.kind \in {"Access", "Eager"} -> BackEdgeTargets(h, n.base, eff)
          [] n.kind \in BuiltInKinds -> BackEdgeTargets(h, n.context, eff)
          [] OTHER -> {}

C26_NewDefsKeepBase ==
    [][OverrideStep /\ pc' = "descend" =>
           \A i \in 1..Len(heap[Top.node].defs) :
               LET v == heap[Top.node].defs[i][2]
                   d == DictGet(heap'[expr'].defs, heap[Top.node].defs[i][1])
                   before == BackEdgeTargets(heap, v, <<>>)
                   after == BackEdgeTargets(heap', d, <<>>)
               IN  /\ value \in before => value \in after
                   /\ expr' \in after <=> Top.node \in before
                   /\ Top.node \notin after
                   /\ ~DictHas(heap'[d].co, value)
      ]_vars

\* b.n = @[p = ^.p] has been reduced: the new p still reads b, the base.
C26_Witness ==
    /\ prog.name = "lineage" /\ prog.c = 1
    /\ pc = "descend" /\ last_fn.fn = "override_after_base"
    /\ heap[expr].kind = "Block"
    /\ expr # PathGet(heap, 1, <<"b">>)
    /\ BackEdgeTargets(heap, block_get(heap, expr, "p"), <<>>)
           = {PathGet(heap, 1, <<"b">>)}
    /\ heap[last_fn.node].kind = "Override"


-----------------------------------------------------------------------------
(* C27: during evaluate_result no node of the preprocessed program graph   *)
(* is modified.  The nodes 1..program keep their kind, children, base,     *)
(* context and (absent) pending table through every step of the loop and   *)
(* of the continuations; the heap only gains nodes.                        *)
C27_ProgramGraphFrozen ==
    [][program > 0 =>
          /\ Len(heap') >= Len(heap)
          /\ SubSeq(heap', 1, program) = SubSeq(heap, 1, program)]_vars

\* factor[x = 4] has run to its result through overrides, calls and
\* built-ins; copies were made and the program graph is as preprocess left it.
C27_Witness ==
    /\ pc = "done"
    /\ prog.name = "factor" /\ prog.a = 4
    /\ Len(heap) > program
    /\ \E i \in program + 1..Len(heap) : heap[i].kind = "Block" /\ ~heap[i].hasco
    /\ SubSeq(heap, 1, program) = preprocess(<<>>, <<>>, Source(prog)).h


-----------------------------------------------------------------------------
(* C28: the block an Override or Call with base value B and definitions D  *)
(* reduces to is a fresh block whose keys are those of B, in B's order,    *)
(* followed by the keys of D that B lacks, in D's order.  A key of D is    *)
(* bound to D's definition lazily cloned with the table {override -> new   *)
(* block}; any other key is bound to B's definition lazily cloned with the *)
(* table of the copy of B.                                                 *)
C28_OverrideKeys ==
    [][OverrideStep /\ pc' = "descend" =>
          LET B == heap[value].defs
              D == heap[Top.node].defs
              O == heap'[expr']
              inherited == lazy_clone(heap, value, <<>>).h[expr'].co
          IN  /\ expr' = Len(heap) + 1
              /\ O.kind = "Block" /\ O.co = <<>>
              /\ DictKeys(O.defs)
                    = DictKeys(B) \o SelectSeq(DictKeys(D),
                                               LAMBDA k : ~DictHas(B, k))
              /\ \A i \in 1..Len(O.defs) :
                    LET k == O.defs[i][1]
                    IN  IF DictHas(D, k)
                        THEN IsLazyCloneOf(heap, heap', DictGet(D, k),
                                           O.defs[i][2],
                                           << <<Top.node, expr'>> >>)
                        ELSE IsLazyCloneOf(heap, heap', DictGet(B, k),
                                           O.defs[i][2], inherited)
      ]_vars

\* An override has replaced a key of its base block, kept another and
\* appended a third.
C28_Witness ==
    /\ pc = "descend" /\ last_fn.fn = "override_after_base"
    /\ expr > program /\ heap[expr].kind = "Block"
    /\ \E B \in 1..Len(heap) :
          /\ heap[B].kind = "Block"
          /\ heap[B].defs # <<>>
          /\ DictGet(heap[expr].co, B) = None
          /\ Len(heap[expr].defs) > Len(heap[B].defs)
          /\ SubSeq(DictKeys(heap[expr].defs), 1, Len(heap[B].defs))
                = DictKeys(heap[B].defs)
          /\ \E k \in DictKeySet(heap[B].defs) \cap DictKeySet(heap[last_fn.node].defs) :
                DictGet(heap[expr].defs, k) # DictGet(heap[B].defs, k)
          /\ \E k \in DictKeySet(heap[B].defs) \ DictKeySet(heap[last_fn.node].defs) : TRUE


-----------------------------------------------------------------------------
(* C29: CloneAttr expansion terminates.  While every CloneAttr of a block  *)
(* names a key of the block, a round of the loop assigns only to keys that *)
(* hold a CloneAttr, so the number of such keys never grows, and the loop  *)
(* ends exactly when every round makes it smaller.  So the property is    *)
(* that each clone-and-expand round leaves the block with fewer CloneAttr  *)
(* definitions than it had.                                                *)
C29_ExpansionTerminates ==
    [][ExpandCloneAttrs /\ pc' = "descend" =>
          Len(attr_clones(heap', expr')) < Len(attr_clones(Propagated, expr))]_vars

=============================================================================
